---- MODULE Spec2Model ----
(***************************************************************************)
(* The server-side session, routing and multiplexing engine of the socket  *)
(* chat application: connection registry, per-connection server loop with  *)
(* its version gate, auth service, message service, offline dispatcher,    *)
(* presence cleaner and voice signalling.                                   *)
(*                                                                         *)
(* The server is one asyncio event loop.  A step of the model is a stretch *)
(* of one task between two points where the loop may switch tasks: one     *)
(* frame read, validated, dispatched and answered by a connection's loop,  *)
(* one get() or one send of the offline dispatcher, one scan of the        *)
(* presence cleaner.                                                       *)
(*                                                                         *)
(* A handler is an operator from the server's state w and a request frame  *)
(* to the state it leaves and the frames it answers with; the actions      *)
(* apply the operators to the current state.                               *)
(***************************************************************************)
EXTENDS Integers, Sequences, FiniteSets, TLC

None == "None"
\* a key the frame's JSON object does not carry
Absent == "absent"

\* ------------------------------------------------------------ universe
Usernames == {"alice", "bob", "carol"}
\* ORDER BY user_id ASC
UserOrder == <<"alice", "bob", "carol">>
\* connection objects; each is accepted at most once
Conns == {"c1", "c2"}
RoomIds == {"r1"}
\* the ids uuid4 hands to file sessions, in the order it does; NoSession past them
SessionOrder == <<"s1", "s2">>
NoSession == "s0"
\* the remote ends that connect to the file channel, in the order they do
Peers == <<"h1", "h2", "h3", "h4">>
\* the values secrets.token_hex hands out, in the order it does
TokenOrder == <<"t1", "t2">>

\* bounds of the exploration
MaxMsgs == 2
MaxNotify == 1
MaxTasks == 1
MaxRequests == 2
MaxStates == 2
MaxBytes == 2
\* the most a read of the bridge returns, standing for 64 * 1024
ChunkSize == 2
\* the frame limit in bytes, standing for 256 * 1024
MAX_PAYLOAD_SIZE == 68

\* ------------------------------------------------------- program constants
DEFAULT_VERSION == "1.0"
DEFAULT_HEARTBEAT_INTERVAL == 15
session_timeout == 30
SUCCESS == 200
BAD_REQUEST == 400
UNAUTHORIZED == 401
FORBIDDEN == 403
NOT_FOUND == 404
CONFLICT == 409
INTERNAL_ERROR == 500
UPGRADE_REQUIRED == 426
INVALID_TOKEN == 1001
VERSION_MISMATCH == 1002

\* time is counted in heartbeat intervals; an age saturates one past the timeout
TimeoutTicks == session_timeout \div DEFAULT_HEARTBEAT_INTERVAL
MaxAge == TimeoutTicks + 1

VARIABLES
    conn_state,     \* per connection: "new" | "open" | "stalled" | "lost" | "closed"
    ctx_user,       \* ConnectionContext.user_id
    ctx_token,      \* ConnectionContext.session_token
    age,            \* now - ConnectionContext.last_seen, in ticks
    by_writer,      \* ConnectionManager._by_writer (its keys)
    by_user,        \* ConnectionManager._by_user
    last_binder,    \* history: the context that last called bind_user for a user
    users,          \* table users: username -> password_hash
    sessions,       \* table sessions: set of <<token, username>>
    presence,       \* table presence: username -> state
    rooms,          \* table rooms: room_id -> row
    room_members,   \* table room_members: room_id -> set of user ids
    messages,       \* table messages: sequence of rows, message_id = index
    offline_queue,  \* table offline_queue: its rows in id order
    dq,             \* OfflineDispatcher._queue
    out,            \* per connection: events written by send_to_user
    active_calls,   \* VoiceService.active_calls
    user_to_call,   \* VoiceService.user_to_call
    minted,         \* how many tokens secrets.token_hex has handed out
    tasks,          \* the send_to_user tasks asyncio.create_task has started, not yet run
    friend_requests,\* table friend_requests: sequence of rows, id = index
    friends,        \* table friends: set of <<user1, user2>>
    files,          \* table files: session_id -> row
    file_sessions,  \* FileTransferServer._sessions: session_id -> its FileSessionState
    file_states,    \* the FileSessionState objects prepare_session has built, by index
    peers,          \* the connections made to the file channel, per remote end
    d_pc,           \* offline dispatcher task: "get" (in queue.get) | "loop" (in a drain's send)
                    \* | a connection (in a writer.drain() on it that has not returned)
    d_user,         \* its local user_id
    d_messages,     \* its local messages, as consume_offline_messages returned them
    d_i,            \* index in d_messages of the event the for loop is at
    refused,        \* history: the version gate has refused a frame
    tx_msg,         \* an envelope handed to encode_msg
    tx_bytes,       \* what encode_msg made of it
    rx_msg          \* what decode_msg made of these bytes

\* the state the handlers read and write, as one value
World ==
    [conn_state |-> conn_state, ctx_user |-> ctx_user, ctx_token |-> ctx_token,
     age |-> age, by_writer |-> by_writer, by_user |-> by_user,
     last_binder |-> last_binder, users |-> users, sessions |-> sessions,
     presence |-> presence, rooms |-> rooms, room_members |-> room_members,
     messages |-> messages, offline_queue |-> offline_queue, dq |-> dq, out |-> out,
     active_calls |-> active_calls, user_to_call |-> user_to_call, minted |-> minted,
     tasks |-> tasks, friend_requests |-> friend_requests, friends |-> friends,
     files |-> files, file_sessions |-> file_sessions, file_states |-> file_states,
     peers |-> peers]

worldVars == <<conn_state, ctx_user, ctx_token, age, by_writer, by_user, last_binder,
               users, sessions, presence, rooms, room_members, messages,
               offline_queue, dq, out, active_calls, user_to_call, minted,
               tasks, friend_requests, friends, files, file_sessions, file_states,
               peers>>
taskVars == <<d_pc, d_user, d_messages, d_i>>
codecVars == <<tx_msg, tx_bytes, rx_msg>>
vars == <<worldVars, taskVars, refused, codecVars>>

\* the state becomes w
Becomes(w) ==
    /\ conn_state' = w.conn_state
    /\ ctx_user' = w.ctx_user
    /\ ctx_token' = w.ctx_token
    /\ age' = w.age
    /\ by_writer' = w.by_writer
    /\ by_user' = w.by_user
    /\ last_binder' = w.last_binder
    /\ users' = w.users
    /\ sessions' = w.sessions
    /\ presence' = w.presence
    /\ rooms' = w.rooms
    /\ room_members' = w.room_members
    /\ messages' = w.messages
    /\ offline_queue' = w.offline_queue
    /\ dq' = w.dq
    /\ out' = w.out
    /\ active_calls' = w.active_calls
    /\ user_to_call' = w.user_to_call
    /\ minted' = w.minted
    /\ tasks' = w.tasks
    /\ friend_requests' = w.friend_requests
    /\ friends' = w.friends
    /\ files' = w.files
    /\ file_sessions' = w.file_sessions
    /\ file_states' = w.file_states
    /\ peers' = w.peers

\* ------------------------------------------------------------- helpers
\* hashlib.sha256(data).hexdigest(), kept symbolic
sha256_hex(data) == <<"sha256", data>>
\* an empty or missing password field
NoPassword == <<>>

\* dict.get(key, default) on a dict modelled as a set of <<key, value>> pairs
Get(d, k, default) ==
    IF \E p \in d : p[1] = k THEN (CHOOSE p \in d : p[1] = k)[2] ELSE default

\* dict.setdefault(key, value)
SetDefault(d, k, v) == IF \E p \in d : p[1] = k THEN d ELSE d \cup {<<k, v>>}

\* dict[k] = v and dict.pop(k, None) on a dict modelled as a function
Put(d, k, v) == [x \in DOMAIN d \cup {k} |-> IF x = k THEN v ELSE d[x]]
Del(d, k) == [x \in DOMAIN d \ {k} |-> d[x]]

Index(order, x) == CHOOSE i \in 1..Len(order) : order[i] = x

RECURSIVE SortedBy(_, _)
SortedBy(order, S) ==
    IF S = {} THEN <<>>
    ELSE LET x == CHOOSE y \in S : \A z \in S : Index(order, y) <= Index(order, z)
         IN <<x>> \o SortedBy(order, S \ {x})

Range(s) == {s[i] : i \in 1..Len(s)}

\* --------------------------------------------------- protocol: framing
\* JSON values, tagged: a string is a sequence of text units (a run of plain
\* characters such as "alice", or one of the characters json escapes or utf-8
\* widens), an object its members in the order of the dict
Str(s) == <<"str", s>>
Num(n) == <<"int", n>>
Obj(members) == <<"obj", members>>

\* the text units that are one special character each
Quote == "\""
Backslash == "\\"
Newline == "\n"
FRAME_DELIMITER == <<Newline>>
Digits == <<"0", "1", "2", "3", "4", "5", "6", "7", "8", "9">>

\* a json encoder that writes the characters of a string as they are
escape_none(c) == <<c>>

\* json's string escaping (ensure_ascii=False): the quote, the backslash and
\* the control character are escaped, everything else stays
escape(c) ==
    CASE c = Quote -> <<Backslash, Quote>>
      [] c = Backslash -> <<Backslash, Backslash>>
      [] c = Newline -> <<Backslash, "n">>
      [] OTHER -> <<c>>

RECURSIVE escape_all(_)
escape_all(s) == IF s = <<>> THEN <<>> ELSE escape(Head(s)) \o escape_all(Tail(s))

\* the decimal digits of a natural number
RECURSIVE digits(_)
digits(n) == IF n < 10 THEN <<Digits[n + 1]>> ELSE digits(n \div 10) \o <<Digits[(n % 10) + 1]>>

\* json.dumps(value, ensure_ascii=False, separators=(",", ":"))
RECURSIVE json_dumps(_)
RECURSIVE dumps_members(_)
json_dumps(v) ==
    CASE v[1] = "str" -> <<Quote>> \o escape_all(v[2]) \o <<Quote>>
      [] v[1] = "int" -> digits(v[2])
      [] v[1] = "obj" -> <<"{">> \o dumps_members(v[2]) \o <<"}">>
dumps_members(ms) ==
    IF ms = <<>> THEN <<>>
    ELSE <<Quote>> \o escape_all(Head(ms)[1]) \o <<Quote, ":">> \o json_dumps(Head(ms)[2])
         \o (IF Len(ms) > 1 THEN <<",">> ELSE <<>>) \o dumps_members(Tail(ms))

\* str.encode("utf-8") and bytes.decode("utf-8"): a unit outside ASCII is two
\* bytes on the wire
RECURSIVE utf8_encode(_)
utf8_encode(t) ==
    IF t = <<>> THEN <<>>
    ELSE (IF Head(t) = "é" THEN <<"C3", "A9">> ELSE <<Head(t)>>) \o utf8_encode(Tail(t))
RECURSIVE utf8_decode(_)
utf8_decode(b) ==
    IF b = <<>> THEN <<>>
    ELSE IF Head(b) = "C3" /\ Len(b) > 1 /\ b[2] = "A9"
    THEN <<"é">> \o utf8_decode(Tail(Tail(b)))
    ELSE <<Head(b)>> \o utf8_decode(Tail(b))

\* bytes.rstrip(FRAME_DELIMITER)
RECURSIVE rstrip(_)
rstrip(b) ==
    IF b # <<>> /\ <<b[Len(b)]>> = FRAME_DELIMITER THEN rstrip(SubSeq(b, 1, Len(b) - 1)) ELSE b

\* what a parse leaves: the value and the position after it, or no value
Parsed(v, i) == [ok |-> TRUE, v |-> v, i |-> i]
NotParsed == [ok |-> FALSE, v |-> <<>>, i |-> 0]

\* json's scanner at the character after an opening quote
RECURSIVE parse_string(_, _, _)
parse_string(t, i, acc) ==
    IF i > Len(t) \/ t[i] = Newline THEN NotParsed
    ELSE IF t[i] = Quote THEN Parsed(acc, i + 1)
    ELSE IF t[i] # Backslash THEN parse_string(t, i + 1, Append(acc, t[i]))
    ELSE IF i + 1 > Len(t) THEN NotParsed
    ELSE IF t[i + 1] = "n" THEN parse_string(t, i + 2, Append(acc, Newline))
    ELSE IF t[i + 1] \in {Quote, Backslash} THEN parse_string(t, i + 2, Append(acc, t[i + 1]))
    ELSE NotParsed

\* json's scanner in a number
RECURSIVE parse_int(_, _, _)
parse_int(t, i, n) ==
    IF i <= Len(t) /\ t[i] \in Range(Digits)
    THEN parse_int(t, i + 1, 10 * n + Index(Digits, t[i]) - 1)
    ELSE Parsed(Num(n), i)

\* json's scanner at a value, and in an object before a member
RECURSIVE parse_value(_, _)
RECURSIVE parse_members(_, _, _)
parse_value(t, i) ==
    IF i > Len(t) THEN NotParsed
    ELSE IF t[i] = Quote
    THEN LET s == parse_string(t, i + 1, <<>>)
         IN IF s.ok THEN Parsed(Str(s.v), s.i) ELSE NotParsed
    ELSE IF t[i] \in Range(Digits) THEN parse_int(t, i, 0)
    ELSE IF t[i] # "{" THEN NotParsed
    ELSE IF i + 1 <= Len(t) /\ t[i + 1] = "}" THEN Parsed(Obj(<<>>), i + 2)
    ELSE parse_members(t, i + 1, <<>>)
parse_members(t, i, acc) ==
    IF i > Len(t) \/ t[i] # Quote THEN NotParsed
    ELSE LET k == parse_string(t, i + 1, <<>>)
             v == parse_value(t, k.i + 1)
         IN IF ~k.ok \/ k.i > Len(t) \/ t[k.i] # ":" THEN NotParsed
            ELSE IF ~v.ok \/ v.i > Len(t) THEN NotParsed
            ELSE IF t[v.i] = "}" THEN Parsed(Obj(Append(acc, <<k.v, v.v>>)), v.i + 1)
            ELSE IF t[v.i] = "," THEN parse_members(t, v.i + 1, Append(acc, <<k.v, v.v>>))
            ELSE NotParsed

\* no envelope
Unset == <<"unset">>

\* what encode_msg and decode_msg raise: ProtocolError(BAD_REQUEST)
ProtocolError == <<"ProtocolError", BAD_REQUEST>>

\* json.loads(text)
json_loads(t) ==
    LET r == parse_value(t, 1)
    IN IF r.ok /\ r.i = Len(t) + 1 THEN r.v ELSE ProtocolError

\* framing.encode_msg
encode_msg(m) ==
    LET data == utf8_encode(json_dumps(m))
    IN IF Len(data) > MAX_PAYLOAD_SIZE THEN ProtocolError
       ELSE data \o FRAME_DELIMITER

\* framing.decode_msg
decode_msg(data) == json_loads(utf8_decode(rstrip(data)))

\* ------------------------------------------------- protocol: validator
\* validate_version: (headers or {}).get("version", "0.0") == DEFAULT_VERSION
validate_version(headers) == Get(headers, "version", "0.0") = DEFAULT_VERSION

\* a request frame; headers is a dict, payload a record
Frame(id, command, headers, payload) ==
    [id |-> id, command |-> command, headers |-> headers, payload |-> payload]

\* ERROR_COMMAND_MAP.get(command_key, command_key)
ERROR_COMMAND_MAP(command) ==
    CASE command = "auth/login" -> "auth/login_ack"
      [] command = "auth/refresh" -> "auth/refresh_ack"
      [] command = "message/send" -> "message/ack"
      [] OTHER -> command

\* a response frame: id, command, headers and the payload's status fields
Response(id, command, headers, status, code, body) ==
    [id |-> id, type |-> "response", command |-> command,
     headers |-> SetDefault(headers, "version", DEFAULT_VERSION),
     status |-> status, error_code |-> code, body |-> body]

\* _error_response(request, ProtocolError(status, code))
error_response(f, status, code) ==
    Response(f.id, ERROR_COMMAND_MAP(f.command), f.headers, status, code, None)

\* what a pass of the server loop leaves: the state w, the response frames _send
\* wrote to the connection, the events written to other transports on the way,
\* and the exception other than ProtocolError that ended the pass, if any
Outcome(w, resp, sent, raised) == [w |-> w, resp |-> resp, sent |-> sent, raised |-> raised]

\* a handler returns a response: the state it leaves and the frame _send writes
Return(w, frame) == Outcome(w, <<frame>>, <<>>, None)

\* a handler returns None: nothing is written
Silent(w) == Outcome(w, <<>>, <<>>, None)

\* a handler raises an exception that is no ProtocolError, with the state at w
Throw(w, exc) == Outcome(w, <<>>, <<>>, exc)

\* the outcome r of a handler that wrote events on its way
Sent(events, r) == [r EXCEPT !.sent = events \o @]

\* a handler raises ProtocolError(status, code) with the state at w: the loop's
\* except branch sends _error_response
Raise(w, f, status, code) == Return(w, error_response(f, status, code))

\* ----------------------------------------------- connection registry
\* ConnectionManager.bind_user, by_user after it
bind_user(bu, c, uid) == IF uid # None THEN [bu EXCEPT ![uid] = c] ELSE bu

\* a registry whose unbind pops the user's entry whoever holds it
unbind_user_any(bu, c, uid) == IF uid # None THEN [bu EXCEPT ![uid] = None] ELSE bu

\* ConnectionManager.unbind_user, by_user after it
unbind_user(bu, c, uid) ==
    IF uid # None /\ bu[uid] = c THEN [bu EXCEPT ![uid] = None] ELSE bu

\* ConnectionManager.unregister(writer of c)
unregister(w, c) ==
    IF c \in w.by_writer
    THEN [w EXCEPT !.by_writer = @ \ {c},
                   !.by_user = unbind_user(@, c, w.ctx_user[c])]
    ELSE w

\* ConnectionManager.send_to_user returns True: a context is bound and the
\* write and drain on its transport do not raise
CanSend(w, uid) == w.by_user[uid] # None /\ w.conn_state[w.by_user[uid]] = "open"

\* ConnectionManager.send_to_user does not return: a context is bound whose peer
\* has stopped reading and whose transport buffer is full, so that the
\* writer.drain() after the write waits
Blocks(w, uid) == w.by_user[uid] # None /\ w.conn_state[w.by_user[uid]] = "stalled"

\* what send_to_user leaves on the wire: the event and, for the record, the
\* user id it was sent under
Wire(event, uid) == [message_id |-> event.message_id, to |-> uid]

\* ConnectionManager.send_to_user when it returns True
send_to_user(w, uid, event) ==
    [w EXCEPT !.out[w.by_user[uid]] = Append(@, Wire(event, uid))]

\* what a write of an event to the transport bound under user_id puts on the
\* wire when a context is bound and the write does not raise: the connection
\* written to, the user id it was sent under and the event
notify_user(w, user_id, event) ==
    IF CanSend(w, user_id)
    THEN <<[conn |-> w.by_user[user_id], to |-> user_id, event |-> event]>>
    ELSE <<>>

\* one notify_user after the other for the users of a sequence
RECURSIVE notify_each(_, _, _)
notify_each(w, user_ids, event) ==
    IF user_ids = <<>> THEN <<>>
    ELSE notify_user(w, Head(user_ids), event) \o notify_each(w, Tail(user_ids), event)

\* ConnectionManager.get_all_users
get_all_users(w) == {u \in Usernames : w.by_user[u] # None}

\* SQLiteStore.enqueue_offline_message: INSERT, the row's id AUTOINCREMENT and
\* so above every id of the table
enqueue_offline_message(w, uid, event) ==
    [w EXCEPT !.offline_queue = Append(@, [user_id |-> uid, message |-> event])]

\* -------------------------------------------------------- auth service
\* secrets.token_hex(16): a token nothing holds, or Exhausted past the pool
Exhausted == "t0"
token_hex(w) == IF w.minted < Len(TokenOrder) THEN TokenOrder[w.minted + 1] ELSE Exhausted

\* SQLiteStore.upsert_session / delete_session
upsert_session(ss, token, username) == {p \in ss : p[1] # token} \cup {<<token, username>>}
delete_session(ss, token) == {p \in ss : p[1] # token}

\* AuthService._login_response
login_response(f, command, status, code, token, user_id) ==
    Response(f.id, command, f.headers, status, code, [token |-> token, user_id |-> user_id])

\* OfflineDispatcher.notify_user_online, the queue after it
notify_user_online(q, user_id) == IF user_id = None THEN q ELSE Append(q, user_id)

\* PresenceService.broadcast_event
presence_event(user_id, state) ==
    [command |-> "presence/event", user_id |-> user_id, state |-> state]

\* AuthService._broadcast_presence and PresenceCleaner._broadcast_offline: a
\* send_to_user task is started for every bound user but user_id
broadcast_presence(w, user_id, state) ==
    LET others == SortedBy(UserOrder, get_all_users(w) \ {user_id})
    IN [w EXCEPT !.tasks = @ \o [i \in 1..Len(others) |->
                                    [to |-> others[i], event |-> presence_event(user_id, state)]]]

\* AuthService.handle_login
handle_login(w, c, f) ==
    LET username == f.payload.username
        password == f.payload.password
        token == token_hex(w)
    IN IF username = "" \/ password = NoPassword
       THEN Raise(w, f, BAD_REQUEST, {})
       ELSE IF username \notin DOMAIN w.users \/ w.users[username] # password
       THEN Return(w, login_response(f, "auth/login_ack", UNAUTHORIZED, {INVALID_TOKEN}, "", ""))
       ELSE Return(broadcast_presence(
                       [w EXCEPT !.minted = @ + 1,
                                 !.sessions = upsert_session(@, token, username),
                                 !.ctx_user[c] = username,
                                 !.ctx_token[c] = token,
                                 !.by_user = bind_user(@, c, username),
                                 !.last_binder[username] = c,
                                 !.presence[username] = "online",
                                 !.dq = notify_user_online(@, username)],
                       username, "online"),
                   login_response(f, "auth/login_ack", SUCCESS, {}, token, username))

\* AuthService.handle_logout
handle_logout(w, c, f) ==
    LET token == w.ctx_token[c]
        user_id == w.ctx_user[c]
        w1 == [w EXCEPT !.sessions = IF token # None THEN delete_session(@, token) ELSE @,
                        !.ctx_token[c] = None,
                        !.by_user = unbind_user(@, c, user_id),
                        !.presence = IF user_id # None
                                     THEN [@ EXCEPT ![user_id] = "offline"] ELSE @,
                        !.ctx_user[c] = None]
        w2 == IF user_id # None THEN broadcast_presence(w1, user_id, "offline") ELSE w1
    IN \* message["id"]
       IF f.id = Absent THEN Throw(w2, "KeyError")
       ELSE Return(w2, Response(f.id, "auth/logout", f.headers, SUCCESS, {}, None))

\* AuthService.handle_refresh
handle_refresh(w, c, f) ==
    LET user_id == w.ctx_user[c]
        new_token == token_hex(w)
    IN IF w.ctx_token[c] = None \/ user_id = None
       THEN Return(w, login_response(f, "auth/refresh_ack", UNAUTHORIZED, {INVALID_TOKEN}, "", ""))
       ELSE Return([w EXCEPT !.minted = @ + 1,
                             !.sessions = delete_session(upsert_session(@, new_token, user_id),
                                                         w.ctx_token[c]),
                             !.ctx_token[c] = new_token,
                             !.by_user = bind_user(@, c, user_id),
                             !.last_binder[user_id] = c,
                             !.dq = notify_user_online(@, user_id)],
                   login_response(f, "auth/refresh_ack", SUCCESS, {}, new_token, user_id))

\* ---------------------------------------------------- presence service
\* PresenceService.handle_update
handle_update(w, c, f) ==
    IF f.payload.state = "" THEN Raise(w, f, BAD_REQUEST, {})
    ELSE IF w.ctx_user[c] = None THEN Raise(w, f, UNAUTHORIZED, {})
    ELSE Return([w EXCEPT !.presence[w.ctx_user[c]] = f.payload.state],
                Response(f.id, f.command, f.headers, SUCCESS, {}, None))

\* SQLiteStore.list_online_users: the users whose state is online, by name
list_online_users(w) == SortedBy(UserOrder, {u \in Usernames : w.presence[u] = "online"})

\* PresenceService.handle_list
handle_list(w, c, f) ==
    IF w.ctx_user[c] = None THEN Raise(w, f, UNAUTHORIZED, {})
    ELSE Return(w, Response(f.id, f.command, f.headers, SUCCESS, {}, list_online_users(w)))

\* ----------------------------------------------------- message service
\* SQLiteStore.insert_message: the stored row
Row(message_id, conversation_id, sender_id) ==
    [message_id |-> message_id, conversation_id |-> conversation_id, sender_id |-> sender_id]

\* the message/event built from the stored row
Event(message_id, sender_id) == [message_id |-> message_id, sender_id |-> sender_id]

\* MessageService._deliver_to_user: send_to_user, and enqueue_offline_message
\* when it returns False
deliver_to_user(w, user_id, event) ==
    IF user_id = "" THEN w
    ELSE IF CanSend(w, user_id) THEN send_to_user(w, user_id, event)
    ELSE enqueue_offline_message(w, user_id, event)

\* the for loop of MessageService._deliver_to_room
RECURSIVE deliver_to_members(_, _, _, _)
deliver_to_members(w, members, sender_id, event) ==
    IF members = <<>> THEN w
    ELSE deliver_to_members(
             IF Head(members) = sender_id THEN w
             ELSE deliver_to_user(w, Head(members), event),
             Tail(members), sender_id, event)

\* SQLiteStore.list_room_members
list_room_members(w, room_id) ==
    IF room_id \in DOMAIN w.room_members THEN SortedBy(UserOrder, w.room_members[room_id])
    ELSE <<>>

\* MessageService._deliver_to_room
deliver_to_room(w, c, f, room_id, event, ack) ==
    LET members == list_room_members(w, room_id)
    IN IF room_id = "" THEN Raise(w, f, BAD_REQUEST, {})
       ELSE IF room_id \notin DOMAIN w.rooms THEN Raise(w, f, NOT_FOUND, {})
       ELSE IF w.ctx_user[c] \notin Range(members) THEN Raise(w, f, FORBIDDEN, {})
       ELSE Return(deliver_to_members(w, members, w.ctx_user[c], event), ack)

\* MessageService.handle_send; the deliveries of one call are taken together
handle_send(w, c, f) ==
    LET sender_id == w.ctx_user[c]
        target == f.payload.target
        message_id == Len(w.messages) + 1
        stored == [w EXCEPT !.messages =
                      Append(@, Row(message_id, f.payload.conversation_id, sender_id))]
        event == Event(message_id, sender_id)
        ack == Response(f.id, "message/ack", f.headers, SUCCESS, {}, message_id)
    IN IF sender_id = None THEN Raise(w, f, UNAUTHORIZED, {})
       ELSE IF f.payload.conversation_id = "" THEN Raise(w, f, BAD_REQUEST, {})
       \* message["id"] in the ack, after store_message
       ELSE IF f.id = Absent THEN Throw(stored, "KeyError")
       ELSE IF target.type = "user" THEN Return(deliver_to_user(stored, target.id, event), ack)
       ELSE IF target.type = "room" THEN deliver_to_room(stored, c, f, target.id, event, ack)
       ELSE Return(stored, ack)

\* ------------------------------------------------------ voice service
\* VoiceCall.__init__
VoiceCall(call_id, initiator_id, call_type, target_type, target_id) ==
    [call_id |-> call_id, initiator_id |-> initiator_id, call_type |-> call_type,
     target_type |-> target_type, target_id |-> target_id,
     status |-> "ringing", participants |-> {initiator_id}]

\* a call object whose status goes back to ringing when a participant joins
\* a connected call
add_participant_ringing(call, user_id) ==
    [call EXCEPT !.participants = @ \cup {user_id},
                 !.status = IF @ = "ringing" THEN "connected" ELSE "ringing"]

\* VoiceCall.add_participant
add_participant(call, user_id) ==
    [call EXCEPT !.participants = @ \cup {user_id},
                 !.status = IF @ = "ringing" THEN "connected" ELSE @]

\* VoiceCall.remove_participant
remove_participant(call, user_id) == [call EXCEPT !.participants = @ \ {user_id}]

\* VoiceCall.end
end(call) == [call EXCEPT !.status = "ended"]

\* the voice/event and voice/data events _notify_user builds
voice_event(event_type, call_id, user_id, members) ==
    [command |-> "voice/event", event_type |-> event_type, call_id |-> call_id,
     user_id |-> user_id, members |-> members]
voice_data(payload) == [command |-> "voice/data", payload |-> payload]

\* a loop over a set of users, taken in the order of their names
notify_all(w, user_ids, event) == notify_each(w, SortedBy(UserOrder, user_ids), event)

\* VoiceService._cleanup_call
cleanup_call(w, call_id) ==
    IF call_id \in DOMAIN w.active_calls
    THEN [w EXCEPT !.active_calls = Del(@, call_id),
                   !.user_to_call = [u \in Usernames |->
                       IF u \in w.active_calls[call_id].participants THEN None ELSE @[u]]]
    ELSE w

\* VoiceService._error_response
voice_error(f, status) ==
    Response(f.id, f.command, {<<"version", DEFAULT_VERSION>>}, status, {}, None)

\* the acknowledgement a voice handler returns
voice_ok(f, command, call_id) ==
    Response(f.id, command, {<<"version", DEFAULT_VERSION>>}, SUCCESS, {}, call_id)

\* VoiceService.handle_end from "Remove user from call" on
end_call(w, user_id, call_id) ==
    LET w1 == [w EXCEPT !.active_calls[call_id] = remove_participant(@, user_id),
                        !.user_to_call[user_id] = None]
        call == w1.active_calls[call_id]
    IN IF call.call_type = "group" /\ call.participants # {} THEN w1
       ELSE cleanup_call([w1 EXCEPT !.active_calls[call_id] = end(@)], call_id)

\* the events VoiceService.handle_end sends: member_left to the remaining
\* participants of a group call, or ended to all_participants
end_events(w, user_id, call_id) ==
    LET call == w.active_calls[call_id]
        rest == call.participants \ {user_id}
    IN IF call.call_type = "group" /\ rest # {}
       THEN notify_all(w, rest, voice_event("member_left", call_id, user_id, rest))
       ELSE notify_all(w, call.participants,
                       voice_event("ended", call_id, call.initiator_id, call.participants))

\* VoiceService.handle_call
handle_call(w, c, f) ==
    LET user_id == w.ctx_user[c]
        target == f.payload.target
        call_id == f.id
        incoming == voice_event("incoming", call_id, user_id, {})
    IN IF user_id = None THEN Return(w, voice_error(f, UNAUTHORIZED))
       ELSE IF target.type = "" \/ target.id = "" THEN Return(w, voice_error(f, BAD_REQUEST))
       ELSE IF w.user_to_call[user_id] # None THEN Return(w, voice_error(f, CONFLICT))
       ELSE Sent(IF target.type = "user"
                 THEN notify_user(w, target.id, incoming)
                 ELSE IF target.type = "room"
                 THEN notify_each(w, SelectSeq(list_room_members(w, target.id),
                                               LAMBDA m : m # user_id), incoming)
                 ELSE <<>>,
                 Return([w EXCEPT !.active_calls = Put(@, call_id,
                                     VoiceCall(call_id, user_id, f.payload.call_type,
                                               target.type, target.id)),
                                  !.user_to_call[user_id] = call_id],
                        voice_ok(f, "voice/call_ack", call_id)))

\* VoiceService.handle_answer
handle_answer(w, c, f) ==
    LET user_id == w.ctx_user[c]
        call_id == f.payload.call_id
        call == w.active_calls[call_id]
    IN IF user_id = None THEN Return(w, voice_error(f, UNAUTHORIZED))
       ELSE IF call_id \notin DOMAIN w.active_calls THEN Return(w, voice_error(f, NOT_FOUND))
       ELSE IF \/ call.call_type = "direct" /\ call.status # "ringing"
               \/ call.call_type = "group" /\ call.status = "ended"
       THEN Return(w, voice_error(f, CONFLICT))
       ELSE Sent(notify_all(w, call.participants \cup {user_id},
                            voice_event(IF call.status = "ringing" THEN "connected"
                                        ELSE "member_joined",
                                        call_id, user_id, call.participants \cup {user_id})),
                 Return([w EXCEPT !.active_calls[call_id] = add_participant(@, user_id),
                                  !.user_to_call[user_id] = call_id],
                        voice_ok(f, "voice/answer_ack", call_id)))

\* VoiceService.handle_reject
handle_reject(w, c, f) ==
    LET user_id == w.ctx_user[c]
        call_id == f.payload.call_id
    IN IF user_id = None THEN Return(w, voice_error(f, UNAUTHORIZED))
       ELSE IF call_id \notin DOMAIN w.active_calls THEN Return(w, voice_error(f, NOT_FOUND))
       ELSE Sent(notify_user(w, w.active_calls[call_id].initiator_id,
                             voice_event("rejected", call_id, user_id, {})),
                 Return(IF w.active_calls[call_id].call_type = "direct"
                        THEN cleanup_call([w EXCEPT !.active_calls[call_id] = end(@)], call_id)
                        ELSE w,
                        voice_ok(f, "voice/reject_ack", call_id)))

\* VoiceService.handle_end
handle_end(w, c, f) ==
    LET user_id == w.ctx_user[c]
        call_id == f.payload.call_id
    IN IF user_id = None THEN Return(w, voice_error(f, UNAUTHORIZED))
       ELSE IF call_id \notin DOMAIN w.active_calls THEN Return(w, voice_error(f, NOT_FOUND))
       ELSE IF user_id \notin w.active_calls[call_id].participants
       THEN Return(w, voice_error(f, FORBIDDEN))
       ELSE Sent(end_events(w, user_id, call_id),
                 Return(end_call(w, user_id, call_id), voice_ok(f, "voice/end_ack", call_id)))

\* VoiceService.handle_voice_data
handle_voice_data(w, c, f) ==
    LET user_id == w.ctx_user[c]
        call_id == f.payload.call_id
    IN IF user_id = None THEN Silent(w)
       ELSE IF call_id \notin DOMAIN w.active_calls THEN Silent(w)
       ELSE IF user_id \notin w.active_calls[call_id].participants THEN Silent(w)
       ELSE Sent(notify_all(w, w.active_calls[call_id].participants \ {user_id},
                            voice_data(f.payload)),
                 Silent(w))

\* VoiceService.user_disconnected, called by on_user_disconnect(ctx) with ctx.user_id
user_disconnected(w, user_id) ==
    LET call_id == w.user_to_call[user_id]
    IN IF call_id # None /\ call_id \in DOMAIN w.active_calls
          /\ user_id \in w.active_calls[call_id].participants
       THEN end_call(w, user_id, call_id)
       ELSE w

\* the events of the handle_end that user_disconnected calls
user_disconnected_events(w, user_id) ==
    LET call_id == w.user_to_call[user_id]
    IN IF call_id # None /\ call_id \in DOMAIN w.active_calls
          /\ user_id \in w.active_calls[call_id].participants
       THEN end_events(w, user_id, call_id)
       ELSE <<>>

\* ------------------------------------------------------ friend service
\* user1 < user2 on the user names of the universe
Before(user1, user2) == Index(UserOrder, user1) < Index(UserOrder, user2)

\* the friends row of two users: user1 < user2
friends_row(a, b) == IF Before(a, b) THEN <<a, b>> ELSE <<b, a>>

\* SQLiteStore.are_friends
are_friends(w, user1, user2) ==
    (IF Before(user2, user1) THEN <<user2, user1>> ELSE <<user1, user2>>) \in w.friends

\* SQLiteStore.send_friend_request: the table after it and the id it returns;
\* UNIQUE(from_user, to_user) turns a repeated request into an update
send_friend_request(w, from_user, to_user) ==
    LET same == {i \in 1..Len(w.friend_requests) :
                    /\ w.friend_requests[i].from_user = from_user
                    /\ w.friend_requests[i].to_user = to_user}
    IN IF same = {}
       THEN [w |-> [w EXCEPT !.friend_requests =
                       Append(@, [from_user |-> from_user, to_user |-> to_user,
                                  status |-> "pending"])],
             id |-> Len(w.friend_requests) + 1]
       ELSE LET i == CHOOSE x \in same : TRUE
            IN [w |-> [w EXCEPT !.friend_requests[i].status = "pending"], id |-> i]

\* SQLiteStore.get_pending_friend_requests: the ids of the rows
get_pending_friend_requests(w, user_id) ==
    {i \in 1..Len(w.friend_requests) :
        w.friend_requests[i].to_user = user_id /\ w.friend_requests[i].status = "pending"}

\* a store that files the friendship as the request names it, requester first
accept_as_requested(w, request_id) ==
    LET row == w.friend_requests[request_id]
    IN IF request_id \notin 1..Len(w.friend_requests) \/ row.status # "pending"
       THEN [w |-> w, success |-> FALSE]
       ELSE [w |-> [w EXCEPT !.friends = @ \cup {<<row.from_user, row.to_user>>},
                             !.friend_requests[request_id].status = "accepted"],
             success |-> TRUE]

\* SQLiteStore.accept_friend_request: the INSERT into friends, or on
\* IntegrityError (the row is there) the update of the request alone
accept_friend_request(w, request_id) ==
    LET row == w.friend_requests[request_id]
    IN IF request_id \notin 1..Len(w.friend_requests) \/ row.status # "pending"
       THEN [w |-> w, success |-> FALSE]
       ELSE IF friends_row(row.from_user, row.to_user) \in w.friends
       THEN [w |-> [w EXCEPT !.friend_requests[request_id].status = "accepted"],
             success |-> TRUE]
       ELSE [w |-> [w EXCEPT !.friends = @ \cup {friends_row(row.from_user, row.to_user)},
                             !.friend_requests[request_id].status = "accepted"],
             success |-> TRUE]

\* SQLiteStore.reject_friend_request
reject_friend_request(w, request_id) ==
    IF request_id \in 1..Len(w.friend_requests)
       /\ w.friend_requests[request_id].status = "pending"
    THEN [w |-> [w EXCEPT !.friend_requests[request_id].status = "rejected"], success |-> TRUE]
    ELSE [w |-> w, success |-> FALSE]

\* SQLiteStore.delete_friend
delete_friend(w, user1, user2) ==
    [w |-> [w EXCEPT !.friends = @ \ {friends_row(user1, user2)}],
     success |-> friends_row(user1, user2) \in w.friends]

\* FriendService._error_response
friend_error(f, status) == Response(f.id, f.command, f.headers, status, {}, None)

\* FriendService._ok_response; request["id"] raises KeyError on a frame without id
friend_ok(w, f, command, body) ==
    IF f.id = Absent THEN Throw(w, "KeyError")
    ELSE Return(w, Response(f.id, command, f.headers, SUCCESS, {}, body))

\* the friend/event a handler sends
friend_event(event_type, user_id, request_id) ==
    [command |-> "friend/event", event_type |-> event_type, user_id |-> user_id,
     request_id |-> request_id]

\* FriendService.handle_request
friend_request(w, c, f) ==
    LET user_id == w.ctx_user[c]
        target_id == f.payload.target_id
        r == send_friend_request(w, user_id, target_id)
    IN IF user_id = None THEN Return(w, friend_error(f, UNAUTHORIZED))
       ELSE IF target_id = "" THEN Return(w, friend_error(f, BAD_REQUEST))
       ELSE IF target_id \notin DOMAIN w.users THEN Return(w, friend_error(f, NOT_FOUND))
       ELSE IF are_friends(w, user_id, target_id) THEN Return(w, friend_error(f, CONFLICT))
       ELSE IF user_id = target_id THEN Return(w, friend_error(f, BAD_REQUEST))
       ELSE Sent(notify_user(r.w, target_id, friend_event("new_request", user_id, r.id)),
                 friend_ok(r.w, f, "friend/request_ack", r.id))

\* FriendService.handle_accept; StatusCode has no member SERVER_ERROR, so the
\* branch for a failed accept raises AttributeError
friend_accept(w, c, f) ==
    LET user_id == w.ctx_user[c]
        request_id == f.payload.request_id
        from_user == w.friend_requests[request_id].from_user
        r == accept_friend_request(w, request_id)
    IN IF user_id = None THEN Return(w, friend_error(f, UNAUTHORIZED))
       ELSE IF request_id = 0 THEN Return(w, friend_error(f, BAD_REQUEST))
       ELSE IF request_id \notin get_pending_friend_requests(w, user_id)
       THEN Return(w, friend_error(f, NOT_FOUND))
       ELSE IF ~r.success THEN Throw(r.w, "AttributeError")
       ELSE Sent(notify_user(r.w, from_user, friend_event("request_accepted", user_id, request_id)),
                 friend_ok(r.w, f, "friend/accept_ack", from_user))

\* FriendService.handle_reject
friend_reject(w, c, f) ==
    LET user_id == w.ctx_user[c]
        request_id == f.payload.request_id
        from_user == w.friend_requests[request_id].from_user
        r == reject_friend_request(w, request_id)
    IN IF user_id = None THEN Return(w, friend_error(f, UNAUTHORIZED))
       ELSE IF request_id = 0 THEN Return(w, friend_error(f, BAD_REQUEST))
       ELSE IF request_id \notin get_pending_friend_requests(w, user_id)
       THEN Return(w, friend_error(f, NOT_FOUND))
       ELSE IF ~r.success THEN Throw(r.w, "AttributeError")
       ELSE Sent(notify_user(r.w, from_user, friend_event("request_rejected", user_id, request_id)),
                 friend_ok(r.w, f, "friend/reject_ack", None))

\* FriendService.handle_delete
friend_delete(w, c, f) ==
    LET user_id == w.ctx_user[c]
        friend_id == f.payload.friend_id
        r == delete_friend(w, user_id, friend_id)
    IN IF user_id = None THEN Return(w, friend_error(f, UNAUTHORIZED))
       ELSE IF friend_id = "" THEN Return(w, friend_error(f, BAD_REQUEST))
       ELSE IF ~are_friends(w, user_id, friend_id) THEN Return(w, friend_error(f, NOT_FOUND))
       ELSE IF ~r.success THEN Throw(r.w, "AttributeError")
       ELSE Sent(notify_user(r.w, friend_id, friend_event("friend_deleted", user_id, 0)),
                 friend_ok(r.w, f, "friend/delete_ack", None))

\* --------------------------------------------------------- room service
\* RoomService._response
room_response(f, status, room_id, members) ==
    Response(f.id, f.command, f.headers, status, {}, [room_id |-> room_id, members |-> members])

\* SQLiteStore.create_room: the rooms row (a NULL password_hash is NoPassword)
\* and, INSERT OR IGNORE, the owner's room_members row
create_room(w, room_id, owner, encrypted, password_hash) ==
    [w EXCEPT !.rooms = Put(@, room_id, [owner |-> owner, encrypted |-> encrypted,
                                         password_hash |-> password_hash]),
              !.room_members = Put(@, room_id, {owner})]

\* SQLiteStore.add_member: a plain INSERT under PRIMARY KEY (room_id, user_id);
\* the IntegrityError of a second row comes out as ValueError
add_member(w, room_id, user_id) ==
    IF user_id \in w.room_members[room_id]
    THEN [w |-> w, raised |-> "ValueError"]
    ELSE [w |-> [w EXCEPT !.room_members[room_id] = @ \cup {user_id}], raised |-> None]

\* SQLiteStore.remove_member
remove_member(w, room_id, user_id) == [w EXCEPT !.room_members[room_id] = @ \ {user_id}]

\* RoomService.handle_create
handle_create(w, c, f) ==
    LET room_id == f.payload.room_id
        password == f.payload.password
        created == create_room(w, room_id, w.ctx_user[c], f.payload.encrypted,
                               IF password # NoPassword THEN sha256_hex(password)
                               ELSE NoPassword)
    IN IF w.ctx_user[c] = None THEN Raise(w, f, UNAUTHORIZED, {})
       ELSE IF room_id = "" THEN Raise(w, f, BAD_REQUEST, {})
       ELSE IF f.payload.encrypted /\ password = NoPassword THEN Raise(w, f, BAD_REQUEST, {})
       ELSE IF room_id \in DOMAIN w.rooms
       THEN Return(w, room_response(f, CONFLICT, room_id, <<>>))
       ELSE Return(created, room_response(f, SUCCESS, room_id, list_room_members(created, room_id)))

\* RoomService.handle_join
handle_join(w, c, f) ==
    LET room_id == f.payload.room_id
        password == f.payload.password
        added == add_member(w, room_id, w.ctx_user[c])
    IN IF w.ctx_user[c] = None THEN Raise(w, f, UNAUTHORIZED, {})
       ELSE IF room_id = "" THEN Raise(w, f, BAD_REQUEST, {})
       ELSE IF room_id \notin DOMAIN w.rooms
       THEN Return(w, room_response(f, NOT_FOUND, room_id, <<>>))
       ELSE IF w.rooms[room_id].encrypted /\ password = NoPassword
       THEN Raise(w, f, FORBIDDEN, {})
       ELSE IF w.rooms[room_id].encrypted /\ w.rooms[room_id].password_hash # sha256_hex(password)
       THEN Return(w, room_response(f, FORBIDDEN, room_id, <<>>))
       ELSE IF added.raised # None THEN Throw(added.w, added.raised)
       ELSE Return(added.w, room_response(f, SUCCESS, room_id, list_room_members(added.w, room_id)))

\* RoomService.handle_leave
handle_leave(w, c, f) ==
    LET room_id == f.payload.room_id
    IN IF w.ctx_user[c] = None THEN Raise(w, f, UNAUTHORIZED, {})
       ELSE IF room_id = "" THEN Raise(w, f, BAD_REQUEST, {})
       ELSE IF room_id \notin DOMAIN w.rooms
       THEN Return(w, room_response(f, NOT_FOUND, room_id, <<>>))
       ELSE Return(remove_member(w, room_id, w.ctx_user[c]),
                   room_response(f, SUCCESS, room_id, <<>>))

\* RoomService.handle_kick
handle_kick(w, c, f) ==
    LET room_id == f.payload.room_id
        target_user_id == f.payload.user_id
        kicked == remove_member(w, room_id, target_user_id)
    IN IF w.ctx_user[c] = None THEN Raise(w, f, UNAUTHORIZED, {})
       ELSE IF room_id = "" \/ target_user_id = "" THEN Raise(w, f, BAD_REQUEST, {})
       ELSE IF room_id \notin DOMAIN w.rooms
       THEN Return(w, room_response(f, NOT_FOUND, room_id, <<>>))
       ELSE IF w.rooms[room_id].owner # w.ctx_user[c]
       THEN Return(w, room_response(f, FORBIDDEN, room_id, <<>>))
       ELSE IF target_user_id = w.ctx_user[c]
       THEN Return(w, room_response(f, BAD_REQUEST, room_id, <<>>))
       ELSE Return(kicked, room_response(f, SUCCESS, room_id, list_room_members(kicked, room_id)))

\* RoomService.handle_delete and SQLiteStore.delete_room
handle_delete(w, c, f) ==
    LET room_id == f.payload.room_id
    IN IF w.ctx_user[c] = None THEN Raise(w, f, UNAUTHORIZED, {})
       ELSE IF room_id = "" THEN Raise(w, f, BAD_REQUEST, {})
       ELSE IF room_id \notin DOMAIN w.rooms
       THEN Return(w, room_response(f, NOT_FOUND, room_id, <<>>))
       ELSE IF w.rooms[room_id].owner # w.ctx_user[c]
       THEN Return(w, room_response(f, FORBIDDEN, room_id, <<>>))
       ELSE Return([w EXCEPT !.rooms = Del(@, room_id), !.room_members = Del(@, room_id)],
                   room_response(f, SUCCESS, room_id, <<>>))

\* --------------------------------------------------------- file service
\* uuid.uuid4().hex for a file session: an id nothing holds
uuid4_hex(w) ==
    IF Cardinality(DOMAIN w.files) < Len(SessionOrder)
    THEN SessionOrder[Cardinality(DOMAIN w.files) + 1] ELSE NoSession

\* SQLiteStore.create_file_session: the row, its status "pending" by default
create_file_session(w, session_id, sender_id, target_id) ==
    [w EXCEPT !.files = Put(@, session_id, [sender_id |-> sender_id,
                                            target_id |-> target_id,
                                            status |-> "pending"])]

\* SQLiteStore.update_file_session_status
update_file_session_status(w, session_id, status) ==
    [w EXCEPT !.files[session_id].status = status]

\* FileSessionState.bridge_task when no task was created, and the task
\* create_task(self._bridge(session)) returns, its locals unset
NoTask == [pc |-> "none", sender |-> None, receiver |-> None, ended |-> None]
BridgeTask == [NoTask EXCEPT !.pc = "start"]

\* FileTransferServer.prepare_session: a new FileSessionState under the key,
\* in place of the one the key held
prepare_session(w, session_id, sender_id, receiver_id) ==
    [w EXCEPT !.file_states = Append(@, [session_id |-> session_id,
                                         sender_id |-> sender_id,
                                         receiver_id |-> receiver_id,
                                         sender |-> None, receiver |-> None,
                                         bridge_task |-> NoTask]),
              !.file_sessions = Put(@, session_id, Len(w.file_states) + 1)]

\* the event FileService._notify_user builds
file_event(command, session_id, from_user) ==
    [command |-> command, session_id |-> session_id, from_user |-> from_user]

\* FileService._response
file_response(f, command, status, session_ids) ==
    Response(f.id, command, f.headers, status, {}, session_ids)

\* handle_request's loop over the members of a room: a session for every
\* member but the sender, "unreachable" when the file/request is not delivered
RECURSIVE request_members(_, _, _)
request_members(w, user_id, members) ==
    IF members = <<>> THEN [w |-> w, sent |-> <<>>, sessions |-> <<>>]
    ELSE IF Head(members) = user_id THEN request_members(w, user_id, Tail(members))
    ELSE LET session_id == uuid4_hex(w)
             w1 == create_file_session(w, session_id, user_id, Head(members))
             ev == notify_user(w1, Head(members), file_event("file/request", session_id, user_id))
             rest == request_members(IF ev # <<>> THEN w1
                                     ELSE update_file_session_status(w1, session_id, "unreachable"),
                                     user_id, Tail(members))
         IN [w |-> rest.w, sent |-> ev \o rest.sent,
             sessions |-> (IF ev # <<>> THEN <<session_id>> ELSE <<>>) \o rest.sessions]

\* FileService.handle_request; StatusCode has no member NOT_IMPLEMENTED, so the
\* branch for an unsupported target type raises AttributeError
file_request(w, c, f) ==
    LET user_id == w.ctx_user[c]
        target_id == f.payload.target_id
        session_id == uuid4_hex(w)
        w1 == create_file_session(w, session_id, user_id, target_id)
        ev == notify_user(w1, target_id, file_event("file/request", session_id, user_id))
        room == request_members(w, user_id, list_room_members(w, target_id))
    IN IF user_id = None THEN Raise(w, f, UNAUTHORIZED, {})
       ELSE IF f.payload.target_type \notin {"user", "room"} THEN Throw(w, "AttributeError")
       ELSE IF target_id = "" THEN Raise(w, f, BAD_REQUEST, {})
       ELSE IF f.payload.file_name = "" \/ f.payload.file_size = 0
       THEN Raise(w, f, BAD_REQUEST, {})
       ELSE IF f.payload.target_type = "user"
       THEN IF ev = <<>>
            THEN Return(update_file_session_status(w1, session_id, "unreachable"),
                        file_response(f, "file/request_ack", NOT_FOUND, <<session_id>>))
            ELSE Sent(ev, Return(w1, file_response(f, "file/request_ack", SUCCESS,
                                                   <<session_id>>)))
       ELSE IF room.sessions = <<>>
       THEN Sent(room.sent, Return(room.w, file_response(f, "file/request_ack", NOT_FOUND, <<>>)))
       ELSE Sent(room.sent, Return(room.w, file_response(f, "file/request_ack", SUCCESS,
                                                         room.sessions)))

\* FileService._require_session: the status it raises, or SUCCESS
require_session(w, c, f) ==
    IF f.payload.session_id = "" THEN BAD_REQUEST
    ELSE IF f.payload.session_id \notin DOMAIN w.files THEN NOT_FOUND
    ELSE IF w.ctx_user[c] \notin {w.files[f.payload.session_id].sender_id,
                                  w.files[f.payload.session_id].target_id}
    THEN FORBIDDEN
    ELSE SUCCESS

\* a handle_accept that lets either participant of the session accept
accept_by_participant(w, c, f) ==
    LET session_id == f.payload.session_id
        session == w.files[session_id]
        w1 == prepare_session(update_file_session_status(w, session_id, "accepted"),
                              session_id, session.sender_id, session.target_id)
        event == file_event("file/accept", session_id, session.target_id)
    IN IF require_session(w, c, f) # SUCCESS THEN Raise(w, f, require_session(w, c, f), {})
       ELSE Sent(notify_user(w1, session.sender_id, event)
                 \o notify_user(w1, session.target_id, event),
                 Return(w1, file_response(f, "file/accept_ack", SUCCESS, <<session_id>>)))

\* FileService.handle_accept
file_accept(w, c, f) ==
    LET session_id == f.payload.session_id
        session == w.files[session_id]
        w1 == prepare_session(update_file_session_status(w, session_id, "accepted"),
                              session_id, session.sender_id, session.target_id)
        event == file_event("file/accept", session_id, session.target_id)
    IN IF require_session(w, c, f) # SUCCESS THEN Raise(w, f, require_session(w, c, f), {})
       ELSE IF w.ctx_user[c] # session.target_id THEN Raise(w, f, FORBIDDEN, {})
       ELSE Sent(notify_user(w1, session.sender_id, event)
                 \o notify_user(w1, session.target_id, event),
                 Return(w1, file_response(f, "file/accept_ack", SUCCESS, <<session_id>>)))

\* FileService.handle_reject
file_reject(w, c, f) ==
    LET session_id == f.payload.session_id
        session == w.files[session_id]
    IN IF require_session(w, c, f) # SUCCESS THEN Raise(w, f, require_session(w, c, f), {})
       ELSE IF w.ctx_user[c] # session.target_id THEN Raise(w, f, FORBIDDEN, {})
       ELSE Sent(notify_user(w, session.sender_id,
                             file_event("file/reject", session_id, w.ctx_user[c])),
                 Return(update_file_session_status(w, session_id, "rejected"),
                        file_response(f, "file/reject_ack", SUCCESS, <<session_id>>)))

\* FileService.notify_channel_complete: the state it leaves and the events it
\* sends
notify_channel_complete(w, session_id) ==
    IF session_id \notin DOMAIN w.files THEN [w |-> w, sent |-> <<>>]
    ELSE [w |-> update_file_session_status(w, session_id, "completed"),
          sent |-> notify_user(w, w.files[session_id].sender_id,
                               file_event("file/complete", session_id, None))
                   \o notify_user(w, w.files[session_id].target_id,
                                  file_event("file/complete", session_id, None))]

\* FileService.notify_channel_error(session_id, error_message)
notify_channel_error(w, session_id, error_message) ==
    IF session_id \notin DOMAIN w.files THEN [w |-> w, sent |-> <<>>]
    ELSE [w |-> update_file_session_status(w, session_id, "error"),
          sent |-> notify_user(w, w.files[session_id].sender_id,
                               file_event("file/error", session_id, None))
                   \o notify_user(w, w.files[session_id].target_id,
                                  file_event("file/error", session_id, None))]

\* FileService.handle_complete
file_complete(w, c, f) ==
    LET r == notify_channel_complete(w, f.payload.session_id)
    IN IF require_session(w, c, f) # SUCCESS THEN Raise(w, f, require_session(w, c, f), {})
       ELSE Sent(r.sent, Return(r.w, file_response(f, "file/complete", SUCCESS,
                                                   <<f.payload.session_id>>)))

\* FileService.handle_error
file_error(w, c, f) ==
    LET r == notify_channel_error(w, f.payload.session_id, "transfer failed")
    IN IF require_session(w, c, f) # SUCCESS THEN Raise(w, f, require_session(w, c, f), {})
       ELSE Sent(r.sent, Return(r.w, file_response(f, "file/error", SUCCESS,
                                                   <<f.payload.session_id>>)))

\* --------------------------------------------------------- file channel
\* a connection to the file channel as start_server hands it to
\* _handle_client: the role and the user_id its handshake named (none yet), the bytes the remote end wrote after its handshake
\* line, whether it has closed (eof) or reset the connection, how many of the
\* bytes a bridge has read, and the bytes a bridge wrote to it
NewPeer ==
    [state |-> "open", role |-> None, user_id |-> None, sent |-> <<>>, eof |-> FALSE, reset |-> FALSE,
     rd |-> 0, got |-> <<>>]

\* FileTransferServer._close_connection: the connection is gone, and with it
\* what its buffers held
close_connection(w, h) == [w EXCEPT !.peers[h] = [NewPeer EXCEPT !.state = "closed"]]

\* FileTransferServer._handle_client on the connection of h whose first line
\* is the handshake `line`
channel_handle_client(w, h, line) ==
    LET i == w.file_sessions[line.session_id]
        session == w.file_states[i]
        attached == [session EXCEPT !.sender = IF line.role = "sender" THEN h ELSE @,
                                    !.receiver = IF line.role = "receiver" THEN h ELSE @]
    IN IF line.session_id = "" \/ line.role \notin {"sender", "receiver"} \/ line.user_id = ""
       THEN close_connection(w, h)
       ELSE IF line.session_id \notin DOMAIN w.file_sessions THEN close_connection(w, h)
       ELSE IF line.role = "sender" /\ line.user_id # session.sender_id
       THEN close_connection(w, h)
       ELSE IF line.role = "receiver" /\ line.user_id # session.receiver_id
       THEN close_connection(w, h)
       ELSE [w EXCEPT !.peers[h].state = "attached",
                      !.peers[h].role = line.role,
                      !.peers[h].user_id = line.user_id,
                      !.file_states[i] =
                          IF attached.sender # None /\ attached.receiver # None
                             /\ attached.bridge_task = NoTask
                          THEN [attached EXCEPT !.bridge_task = BridgeTask]
                          ELSE attached]

\* self._on_complete(session_id): the callback main.py sets is
\* FileService.notify_channel_complete
on_complete(w, session_id) ==
    [w |-> notify_channel_complete(w, session_id).w,
     sent |-> notify_channel_complete(w, session_id).sent, raised |-> None]

\* self._on_error(session_id): the callback main.py sets is
\* FileService.notify_channel_error(session_id, error_message), so the call
\* with one argument raises TypeError
on_error(w, session_id) == [w |-> w, sent |-> <<>>, raised |-> "TypeError"]

\* _bridge's first step: its locals sender and receiver
bridge_start(w, i) ==
    [w EXCEPT !.file_states[i].bridge_task =
                  [@ EXCEPT !.pc = "copy", !.sender = w.file_states[i].sender,
                            !.receiver = w.file_states[i].receiver]]

\* how _bridge leaves its loop: the except branch when the loop failed, the
\* else branch when it did not, then the finally block
bridge_end(w, i, failed) ==
    LET session == w.file_states[i]
        r == IF failed THEN on_error(w, session.session_id)
             ELSE on_complete(w, session.session_id)
        w1 == close_connection(close_connection(r.w, session.bridge_task.sender),
                               session.bridge_task.receiver)
    IN [w |-> [w1 EXCEPT !.file_sessions = Del(@, session.session_id),
                         !.file_states[i].bridge_task =
                             [NoTask EXCEPT !.pc = "done",
                                            !.ended = IF failed THEN "error" ELSE "eof"]],
        sent |-> r.sent, raised |-> r.raised]

\* a bridge whose write passes the bytes of a chunk on in reverse
bridge_copy_reversed(w, i, n) ==
    LET b == w.file_states[i].bridge_task
        s == w.peers[b.sender]
        chunk == [k \in 1..n |-> s.sent[s.rd + n + 1 - k]]
        w1 == [w EXCEPT !.peers[b.sender].rd = @ + n, !.peers[b.receiver].got = @ \o chunk]
    IN IF s.reset THEN bridge_end(w, i, TRUE)
       ELSE IF s.rd = Len(s.sent) THEN bridge_end(w, i, FALSE)
       ELSE IF w.peers[b.receiver].reset THEN bridge_end(w1, i, TRUE)
       ELSE [w |-> w1, sent |-> <<>>, raised |-> None]

\* one pass of _bridge's while loop, in which read(64 * 1024) returns n bytes
\* when the sender has unread bytes: read raises on a reset connection and
\* returns b"" at the end of the stream; write hands the chunk to the
\* receiver's transport and drain raises when the receiver has reset
bridge_copy(w, i, n) ==
    LET b == w.file_states[i].bridge_task
        s == w.peers[b.sender]
        chunk == SubSeq(s.sent, s.rd + 1, s.rd + n)
        w1 == [w EXCEPT !.peers[b.sender].rd = @ + n, !.peers[b.receiver].got = @ \o chunk]
    IN IF s.reset THEN bridge_end(w, i, TRUE)
       ELSE IF s.rd = Len(s.sent) THEN bridge_end(w, i, FALSE)
       ELSE IF w.peers[b.receiver].reset THEN bridge_end(w1, i, TRUE)
       ELSE [w |-> w1, sent |-> <<>>, raised |-> None]

\* --------------------------------------------------------- server loop
\* CommandRouter.dispatch: the handler registered for the command, or no
\* response when none is
dispatch(w, c, f) ==
    CASE f.command = "auth/login" -> handle_login(w, c, f)
      [] f.command = "auth/logout" -> handle_logout(w, c, f)
      [] f.command = "auth/refresh" -> handle_refresh(w, c, f)
      [] f.command = "presence/update" -> handle_update(w, c, f)
      [] f.command = "presence/list" -> handle_list(w, c, f)
      [] f.command = "room/create" -> handle_create(w, c, f)
      [] f.command = "room/join" -> handle_join(w, c, f)
      [] f.command = "room/leave" -> handle_leave(w, c, f)
      [] f.command = "room/kick" -> handle_kick(w, c, f)
      [] f.command = "room/delete" -> handle_delete(w, c, f)
      [] f.command = "message/send" -> handle_send(w, c, f)
      [] f.command = "voice/call" -> handle_call(w, c, f)
      [] f.command = "voice/answer" -> handle_answer(w, c, f)
      [] f.command = "voice/reject" -> handle_reject(w, c, f)
      [] f.command = "voice/end" -> handle_end(w, c, f)
      [] f.command = "voice/data" -> handle_voice_data(w, c, f)
      [] f.command = "friend/request" -> friend_request(w, c, f)
      [] f.command = "friend/accept" -> friend_accept(w, c, f)
      [] f.command = "friend/reject" -> friend_reject(w, c, f)
      [] f.command = "friend/delete" -> friend_delete(w, c, f)
      [] f.command = "file/request" -> file_request(w, c, f)
      [] f.command = "file/accept" -> file_accept(w, c, f)
      [] f.command = "file/reject" -> file_reject(w, c, f)
      [] f.command = "file/complete" -> file_complete(w, c, f)
      [] f.command = "file/error" -> file_error(w, c, f)
      [] OTHER -> Silent(w)

\* ConnectionContext.touch
touch(w, c) == [w EXCEPT !.age[c] = 0]

\* the finally block of _handle_client: on_disconnect(ctx) when ctx.user_id is
\* set, writer.close(), connection_manager.unregister(writer)
finally(w, c) ==
    LET w1 == IF w.ctx_user[c] # None THEN user_disconnected(w, w.ctx_user[c]) ELSE w
    IN unregister([w1 EXCEPT !.conn_state[c] = "closed"], c)

\* the events the finally block's on_disconnect(ctx) sends
finally_sent(w, c) ==
    IF w.ctx_user[c] # None THEN user_disconnected_events(w, w.ctx_user[c]) ELSE <<>>

\* the pass whose handler came out as r: an exception other than ProtocolError
\* leaves the while loop through "except Exception" and the finally block runs
after_dispatch(r, c) ==
    IF r.raised = None THEN r
    ELSE [r EXCEPT !.w = finally(r.w, c), !.sent = @ \o finally_sent(r.w, c)]

\* a server loop that touches the context before it validates the frame
handle_client_touch_first(w, c, f) ==
    IF ~validate_version(f.headers)
    THEN Raise(touch(w, c), f, UPGRADE_REQUIRED, {VERSION_MISMATCH})
    ELSE after_dispatch(dispatch(touch(w, c), c, f), c)

\* SocketServer._handle_client, one pass of its while loop on frame f:
\* validate_msg, ctx.touch(), router.dispatch, _send of the response
handle_client(w, c, f) ==
    IF ~validate_version(f.headers)
    THEN Raise(w, f, UPGRADE_REQUIRED, {VERSION_MISMATCH})
    ELSE after_dispatch(dispatch(touch(w, c), c, f), c)

\* ----------------------------------------------------- presence cleaner
\* ctx.last_seen < idle_before
idle(w, c) == w.age[c] > TimeoutTicks

\* ConnectionManager.cleanup_idle: unregister the writers in todo, in some
\* iteration order of the dict
RECURSIVE cleanup_idle(_, _)
cleanup_idle(w, todo) ==
    IF todo = {} THEN w
    ELSE LET c == CHOOSE x \in todo : TRUE
         IN cleanup_idle(unregister(w, c), todo \ {c})

\* the for loop of PresenceCleaner._run over the removed users: _broadcast_offline
RECURSIVE broadcast_offline(_, _)
broadcast_offline(w, removed) ==
    IF removed = <<>> THEN w
    ELSE broadcast_offline(broadcast_presence(w, Head(removed), "offline"), Tail(removed))

\* the contexts one scan removes
Idle(w) == {c \in w.by_writer : idle(w, c)}

\* PresenceCleaner._run, one scan: cleanup_idle and update_presence(user, "offline")
\* for each removed user
presence_scan(w) ==
    LET removed == {w.ctx_user[c] : c \in Idle(w)} \ {None}
        w1 == cleanup_idle(w, Idle(w))
    IN broadcast_offline(
           [w1 EXCEPT !.presence = [u \in Usernames |-> IF u \in removed THEN "offline" ELSE @[u]]],
           SortedBy(UserOrder, removed))

\* --------------------------------------------------- offline dispatcher
\* the subsequence of s at the positions of the set ids, in ascending order
RECURSIVE At(_, _)
At(s, ids) ==
    IF s = <<>> THEN <<>>
    ELSE At(SubSeq(s, 1, Len(s) - 1), ids)
         \o (IF Len(s) \in ids THEN <<s[Len(s)]>> ELSE <<>>)

\* a consume that takes the table's oldest row whoever it is for
consume_oldest(w, user_id) ==
    [w |-> [w EXCEPT !.offline_queue = IF @ = <<>> THEN @ ELSE Tail(@)],
     messages |-> IF w.offline_queue = <<>> THEN <<>> ELSE <<Head(w.offline_queue).message>>]

\* SQLiteStore.consume_offline_messages: SELECT the rows of the user ORDER BY
\* id ASC, DELETE the rows of these ids, return their messages; a row's id is
\* modelled by its position in the table
consume_offline_messages(w, user_id) ==
    LET ids == {i \in 1..Len(w.offline_queue) : w.offline_queue[i].user_id = user_id}
        rows == At(w.offline_queue, ids)
    IN [w |-> [w EXCEPT !.offline_queue = At(@, (1..Len(@)) \ ids)],
        messages |-> [k \in 1..Len(rows) |-> rows[k].message]]

\* one pass of the for loop of _drain_user_queue at messages[i]: send_to_user,
\* and on False enqueue_offline_message and break; wait is the connection in
\* whose drain() the send stays
drain_pass(w, user_id, msgs, i) ==
    IF Blocks(w, user_id)
    THEN [w |-> send_to_user(w, user_id, msgs[i]), break |-> FALSE, wait |-> w.by_user[user_id]]
    ELSE IF CanSend(w, user_id)
    THEN [w |-> send_to_user(w, user_id, msgs[i]), break |-> FALSE, wait |-> None]
    ELSE [w |-> enqueue_offline_message(w, user_id, msgs[i]), break |-> TRUE, wait |-> None]

\* the dispatcher task after a pass r at messages[i]: in the drain() of its
\* send, in the next send, or back in queue.get() with its locals dead
AfterPass(r, user_id, msgs, i) ==
    /\ Becomes(r.w)
    /\ IF r.wait # None
       THEN d_pc' = r.wait /\ d_user' = user_id /\ d_messages' = msgs /\ d_i' = i
       ELSE IF ~r.break /\ i < Len(msgs)
       THEN d_pc' = "loop" /\ d_user' = user_id /\ d_messages' = msgs /\ d_i' = i + 1
       ELSE d_pc' = "get" /\ d_user' = None /\ d_messages' = <<>> /\ d_i' = 1

\* OfflineDispatcher._run: queue.get() returns, _drain_user_queue consumes the
\* user's queue and makes its first send
dispatcher_run ==
    /\ d_pc = "get"
    /\ dq # <<>>
    /\ UNCHANGED <<refused, codecVars>>
    /\ LET user_id == Head(dq)
           got == consume_offline_messages([World EXCEPT !.dq = Tail(@)], user_id)
       IN IF got.messages = <<>>
          THEN Becomes(got.w) /\ UNCHANGED taskVars
          ELSE AfterPass(drain_pass(got.w, user_id, got.messages, 1), user_id, got.messages, 1)

\* _drain_user_queue resumes after a send's drain() and makes the next send
drain_next ==
    /\ d_pc = "loop"
    /\ UNCHANGED <<refused, codecVars>>
    /\ AfterPass(drain_pass(World, d_user, d_messages, d_i), d_user, d_messages, d_i)

\* the drain() the dispatcher's send waits in raises, the transport being lost:
\* send_to_user returns False, the event is put back and the loop breaks
drain_raises ==
    /\ d_pc \in Conns
    /\ conn_state[d_pc] \in {"lost", "closed"}
    /\ Becomes(enqueue_offline_message(World, d_user, d_messages[d_i]))
    /\ d_pc' = "get" /\ d_user' = None /\ d_messages' = <<>> /\ d_i' = 1
    /\ UNCHANGED <<refused, codecVars>>

\* ------------------------------------------------------------- actions
\* what the exploration leaves out: states past its bounds
Bounded(w) ==
    /\ Len(w.messages) <= MaxMsgs
    /\ Len(w.dq) <= MaxNotify
    /\ Len(w.tasks) <= MaxTasks
    /\ Len(w.friend_requests) <= MaxRequests
    /\ NoSession \notin DOMAIN w.files
    /\ Len(w.file_states) <= MaxStates
    /\ \A c \in Conns : w.ctx_token[c] # Exhausted

\* a connection's loop reads frame f and handles it
Serve(c, f) ==
    /\ conn_state[c] = "open"
    /\ Bounded(handle_client(World, c, f).w)
    /\ Becomes(handle_client(World, c, f).w)
    /\ refused' = (refused \/ ~validate_version(f.headers))
    /\ UNCHANGED <<taskVars, codecVars>>

\* asyncio.start_server hands a new connection to _handle_client:
\* ConnectionContext(...) and connection_manager.register(writer, ctx)
Accept(c) ==
    /\ conn_state[c] = "new"
    /\ Becomes([World EXCEPT !.conn_state[c] = "open", !.by_writer = @ \cup {c}])
    /\ UNCHANGED <<taskVars, refused, codecVars>>

\* the peer closes or resets: reads and writes on the transport raise from now on
ConnLost(c) ==
    /\ conn_state[c] \in {"open", "stalled"}
    /\ Becomes([World EXCEPT !.conn_state[c] = "lost"])
    /\ UNCHANGED <<taskVars, refused, codecVars>>

\* the peer stops reading and the transport's buffer fills up: a drain() on the
\* transport waits from now on
Stall(c) ==
    /\ conn_state[c] = "open"
    /\ Becomes([World EXCEPT !.conn_state[c] = "stalled"])
    /\ UNCHANGED <<taskVars, refused, codecVars>>

\* _handle_client leaves its loop on the read error and runs its finally block
Disconnect(c) ==
    /\ conn_state[c] = "lost"
    /\ Becomes(finally(World, c))
    /\ UNCHANGED <<taskVars, refused, codecVars>>

\* the peer closes and the loop leaves on the read error at once
Close(c) ==
    /\ conn_state[c] = "open"
    /\ Becomes(finally(World, c))
    /\ UNCHANGED <<taskVars, refused, codecVars>>

\* a heartbeat interval passes
Tick ==
    /\ \E c \in Conns : conn_state[c] \in {"open", "lost"} /\ age[c] < MaxAge
    /\ age' = [c \in Conns |->
                 IF conn_state[c] \in {"open", "lost"} /\ age[c] < MaxAge
                 THEN age[c] + 1 ELSE age[c]]
    /\ UNCHANGED <<conn_state, ctx_user, ctx_token, by_writer, by_user, last_binder,
                   users, sessions, presence, rooms, room_members, messages,
                   offline_queue, dq, out, active_calls, user_to_call, minted, tasks,
                   friend_requests, friends, files, file_sessions, file_states,
                   peers, taskVars, refused, codecVars>>

\* the presence cleaner wakes from its sleep and finds idle contexts
presence_cleaner ==
    /\ Idle(World) # {}
    /\ Becomes(presence_scan(World))
    /\ UNCHANGED <<taskVars, refused, codecVars>>

\* what a send_to_user task started by create_task writes when it runs in w
run_task(w, task) == notify_user(w, task.to, task.event)

\* the oldest of the started send_to_user tasks runs
presence_task ==
    /\ tasks # <<>>
    /\ Becomes([World EXCEPT !.tasks = Tail(@)])
    /\ UNCHANGED <<taskVars, refused, codecVars>>

\* the remote end of h connects to the file channel, once the handshakes of
\* the connections before it are done
Connect(h) ==
    /\ h \notin DOMAIN peers
    /\ \A k \in 1..(Index(Peers, h) - 1) :
           Peers[k] \in DOMAIN peers /\ peers[Peers[k]].state # "open"
    /\ Becomes([World EXCEPT !.peers = Put(@, h, NewPeer)])
    /\ UNCHANGED <<taskVars, refused, codecVars>>

\* _handle_client reads the handshake line the remote end of h sent
Handshake(h, line) ==
    /\ h \in DOMAIN peers /\ peers[h].state = "open"
    /\ Becomes(channel_handle_client(World, h, line))
    /\ UNCHANGED <<taskVars, refused, codecVars>>

\* a bridge reads from h, or writes to it; what a remote end does before a
\* bridge holds its connection waits in the stream and is the same to the
\* bridge as done then
Bridged(h) ==
    \E i \in DOMAIN file_states :
        /\ file_states[i].bridge_task.pc = "copy"
        /\ h \in {file_states[i].bridge_task.sender, file_states[i].bridge_task.receiver}

\* the sending end of h writes byte b of its file
Write(h, b) ==
    /\ Bridged(h) /\ peers[h].role = "sender"
    /\ ~peers[h].eof /\ ~peers[h].reset /\ Len(peers[h].sent) < MaxBytes
    /\ Becomes([World EXCEPT !.peers[h].sent = Append(@, b)])
    /\ UNCHANGED <<taskVars, refused, codecVars>>

\* the sending end of h closes its connection after what it wrote
Eof(h) ==
    /\ Bridged(h) /\ peers[h].role = "sender"
    /\ ~peers[h].eof /\ ~peers[h].reset
    /\ Becomes([World EXCEPT !.peers[h].eof = TRUE])
    /\ UNCHANGED <<taskVars, refused, codecVars>>

\* the connection of h breaks: reads and drains on it raise from now on
Reset(h) ==
    /\ Bridged(h)
    /\ ~peers[h].eof /\ ~peers[h].reset
    /\ Becomes([World EXCEPT !.peers[h].reset = TRUE])
    /\ UNCHANGED <<taskVars, refused, codecVars>>

\* the task of a bridge runs its first step
BridgeStart(i) ==
    /\ i \in DOMAIN file_states
    /\ file_states[i].bridge_task.pc = "start"
    /\ Becomes(bridge_start(World, i))
    /\ UNCHANGED <<taskVars, refused, codecVars>>

\* the read of a bridge returns, with n bytes when there are bytes to read
BridgeCopy(i, n) ==
    /\ i \in DOMAIN file_states
    /\ file_states[i].bridge_task.pc = "copy"
    /\ LET s == peers[file_states[i].bridge_task.sender]
       IN \/ n = 1 /\ (s.reset \/ (s.eof /\ s.rd = Len(s.sent)))
          \/ ~s.reset /\ s.rd + n <= Len(s.sent)
    /\ Becomes(bridge_copy(World, i, n).w)
    /\ UNCHANGED <<taskVars, refused, codecVars>>

\* ------------------------------------------------ frames clients send
V1 == {<<"version", DEFAULT_VERSION>>}
\* headers the version gate refuses: none, and another version
BadHeaders == {{}, {<<"version", "2.0">>}}
FrameIds == {"k1", "k2"}
LoginUsers == {"alice", "bob"}

LoginFrames(h) ==
    {Frame("k1", "auth/login", h, [username |-> u, password |-> pw]) :
        u \in LoginUsers \cup {"mallory", ""},
        pw \in {sha256_hex("alice"), sha256_hex("bob"), NoPassword}}

\* logins that present the user's own password hash
GoodLogins ==
    {Frame("k1", "auth/login", V1, [username |-> u, password |-> sha256_hex(u)]) :
        u \in LoginUsers}

LogoutFrame(h) == Frame("k1", "auth/logout", h, [none |-> None])
RefreshFrame(h) == Frame("k1", "auth/refresh", h, [none |-> None])
\* presence/heartbeat has no handler registered in the router
HeartbeatFrame(h) == Frame("k1", "presence/heartbeat", h, [none |-> None])

Targets ==
    [type : {"user"}, id : Usernames \cup {""}]
    \cup [type : {"room"}, id : RoomIds \cup {"r9", ""}]
    \cup [type : {""}, id : {""}]

SendFrames(h) ==
    {Frame("k1", "message/send", h, [conversation_id |-> cv, target |-> t]) :
        cv \in {"cv", ""}, t \in Targets}

CallFrames(h) ==
    {Frame(id, "voice/call", h, [call_type |-> ct, target |-> t]) :
        id \in FrameIds, ct \in {"direct", "group"},
        t \in [type : {"user"}, id : Usernames] \cup [type : {"room"}, id : RoomIds]
              \cup [type : {""}, id : {""}]}

\* the calls the clients of the voice exploration place
Dialled ==
    {f \in CallFrames(V1) :
        \/ f.payload.call_type = "direct" /\ f.payload.target.type = "user"
           /\ f.payload.target.id \in LoginUsers
        \/ f.payload.call_type = "group" /\ f.payload.target.type = "room"}

AnswerFrames(h) == {Frame("k1", "voice/answer", h, [call_id |-> k]) : k \in FrameIds}
RejectFrames(h) == {Frame("k1", "voice/reject", h, [call_id |-> k]) : k \in FrameIds}
EndFrames(h) == {Frame("k1", "voice/end", h, [call_id |-> k]) : k \in FrameIds}
VoiceDataFrames(h) ==
    {Frame("k1", "voice/data", h, [call_id |-> k, data |-> "pcm"]) : k \in FrameIds}

\* request ids a client may name; 0 stands for a missing request_id
RequestIds == 0..(MaxRequests + 1)

FriendRequestFrames(h) ==
    {Frame("k1", "friend/request", h, [target_id |-> t]) : t \in Usernames \cup {"mallory", ""}}
FriendAcceptFrames(h) ==
    {Frame("k1", "friend/accept", h, [request_id |-> i]) : i \in RequestIds}
FriendRejectFrames(h) ==
    {Frame("k1", "friend/reject", h, [request_id |-> i]) : i \in RequestIds}
FriendDeleteFrames(h) ==
    {Frame("k1", "friend/delete", h, [friend_id |-> t]) : t \in Usernames \cup {""}}

\* frames that carry no "id"
NoIdFrames(h) ==
    {Frame(Absent, "auth/logout", h, [none |-> None])}
    \cup {Frame(Absent, "message/send", h, [conversation_id |-> "cv", target |-> t]) :
              t \in Targets}

\* presence/update with a state, and with none
UpdateFrames(h) ==
    {Frame("k1", "presence/update", h, [state |-> st]) : st \in {"away", "online", ""}}

\* room ids a client may name: the room there is, one to create, none
NamedRooms == RoomIds \cup {"r2", ""}

CreateFrames(h) ==
    {Frame("k1", "room/create", h, [room_id |-> r, encrypted |-> e, password |-> pw]) :
        r \in NamedRooms, e \in BOOLEAN, pw \in {<<"pw">>, NoPassword}}
JoinFrames(h) ==
    {Frame("k1", "room/join", h, [room_id |-> r, password |-> pw]) :
        r \in NamedRooms, pw \in {<<"pw">>, <<"bad">>, NoPassword}}
LeaveFrames(h) == {Frame("k1", "room/leave", h, [room_id |-> r]) : r \in NamedRooms}
KickFrames(h) ==
    {Frame("k1", "room/kick", h, [room_id |-> r, user_id |-> u]) :
        r \in NamedRooms, u \in LoginUsers \cup {""}}
DeleteFrames(h) == {Frame("k1", "room/delete", h, [room_id |-> r]) : r \in NamedRooms}

\* session ids a client may name: the ones uuid4 hands out, an unknown one, none
NamedSessions == Range(SessionOrder) \cup {"s9", ""}

FileRequestFrames(h) ==
    {Frame("k1", "file/request", h,
           [target_type |-> t[1], target_id |-> t[2], file_name |-> n, file_size |-> 1]) :
        t \in {<<"user", "bob">>, <<"user", "carol">>, <<"user", "">>,
               <<"room", "r1">>, <<"group", "bob">>},
        n \in {"f", ""}}
FileAcceptFrames(h) ==
    {Frame("k1", "file/accept", h, [session_id |-> s]) : s \in NamedSessions}
FileRejectFrames(h) ==
    {Frame("k1", "file/reject", h, [session_id |-> s]) : s \in NamedSessions}
FileCompleteFrames(h) ==
    {Frame("k1", "file/complete", h, [session_id |-> s]) : s \in NamedSessions}
FileErrorFrames(h) ==
    {Frame("k1", "file/error", h, [session_id |-> s]) : s \in NamedSessions}

\* the handshake lines a remote end may send to the file channel
HandshakeLines ==
    [session_id : NamedSessions, role : {"sender", "receiver", "viewer"},
     user_id : LoginUsers \cup {""}]
\* the bytes of a file
Bytes == {0, 1}

\* every frame of the universe under headers h
Requests(h) ==
    LoginFrames(h) \cup {LogoutFrame(h), RefreshFrame(h), HeartbeatFrame(h)}
    \cup UpdateFrames(h)
    \cup NoIdFrames(h)
    \cup FriendRequestFrames(h) \cup FriendAcceptFrames(h) \cup FriendRejectFrames(h)
    \cup FriendDeleteFrames(h)
    \cup SendFrames(h) \cup CallFrames(h) \cup AnswerFrames(h) \cup RejectFrames(h)
    \cup EndFrames(h) \cup VoiceDataFrames(h)

BadVersionFrames == UNION {Requests(h) : h \in BadHeaders}

Login(c, f) == Serve(c, f)
Update(c, f) == Serve(c, f)
Create(c, f) == Serve(c, f)
Join(c, f) == Serve(c, f)
Leave(c, f) == Serve(c, f)
Kick(c, f) == Serve(c, f)
Delete(c, f) == Serve(c, f)
NoId(c, f) == Serve(c, f)
FriendRequest(c, f) == Serve(c, f)
FriendAccept(c, f) == Serve(c, f)
FriendReject(c, f) == Serve(c, f)
FriendDelete(c, f) == Serve(c, f)
Logout(c) == Serve(c, LogoutFrame(V1))
Refresh(c) == Serve(c, RefreshFrame(V1))
Heartbeat(c) == Serve(c, HeartbeatFrame(V1))
BadVersion(c, f) == Serve(c, f)
Send(c, f) == Serve(c, f)
FileRequest(c, f) == Serve(c, f)
FileAccept(c, f) == Serve(c, f)
FileReject(c, f) == Serve(c, f)
FileComplete(c, f) == Serve(c, f)
FileError(c, f) == Serve(c, f)
Call(c, f) == Serve(c, f)
Answer(c, f) == Serve(c, f)
Reject(c, f) == Serve(c, f)
End(c, f) == Serve(c, f)
VoiceData(c, f) == Serve(c, f)

\* ------------------------------------------------------ specifications
\* The server after run_server() has built its services, on a database in which
\* alice and bob are seeded, carol has registered, and room r1 was created by
\* alice in an earlier run.
Booted ==
    /\ conn_state = [c \in Conns |-> "new"]
    /\ ctx_user = [c \in Conns |-> None]
    /\ ctx_token = [c \in Conns |-> None]
    /\ age = [c \in Conns |-> 0]
    /\ by_writer = {}
    /\ by_user = [u \in Usernames |-> None]
    /\ last_binder = [u \in Usernames |-> None]
    /\ users = [u \in Usernames |-> sha256_hex(u)]
    /\ sessions = {}
    /\ presence = [u \in Usernames |-> "offline"]
    /\ rooms = [r \in RoomIds |-> [owner |-> "alice", encrypted |-> FALSE,
                                    password_hash |-> NoPassword]]
    /\ room_members = [r \in RoomIds |-> {"alice", "bob", "carol"}]
    /\ dq = <<>>
    /\ out = [c \in Conns |-> <<>>]
    /\ active_calls = [k \in {} |-> None]
    /\ user_to_call = [u \in Usernames |-> None]
    /\ minted = 0
    /\ tasks = <<>>
    /\ friend_requests = <<>>
    /\ friends = {}
    /\ files = [k \in {} |-> None]
    /\ file_sessions = [k \in {} |-> None]
    /\ file_states = <<>>
    /\ peers = [h \in {} |-> NewPeer]
    /\ d_pc = "get"
    /\ d_user = None
    /\ d_messages = <<>>
    /\ d_i = 1
    /\ refused = FALSE

\* no message has been sent yet
InitServer == Booted /\ messages = <<>> /\ offline_queue = <<>>

\* no envelope is in the codec
NoCodec == tx_msg = Unset /\ tx_bytes = <<>> /\ rx_msg = Unset

Init == InitServer /\ NoCodec

\* connections, auth and idle eviction
Next ==
    \/ \E c \in Conns : Accept(c)
    \/ \E c \in Conns : Close(c)
    \/ \E c \in Conns, f \in LoginFrames(V1) : Login(c, f)
    \/ \E c \in Conns : Logout(c)
    \/ \E c \in Conns, f \in NoIdFrames(V1) : NoId(c, f)
    \/ \E c \in Conns : Refresh(c)
    \/ \E c \in Conns : Heartbeat(c)
    \/ \E c \in Conns, h \in BadHeaders : BadVersion(c, HeartbeatFrame(h))
    \/ Tick
    \/ presence_cleaner
    \/ dispatcher_run
    \/ presence_task

Spec == Init /\ [][Next]_vars

\* connections, auth, messaging and offline delivery
NextMsg ==
    \/ \E c \in Conns : Accept(c)
    \/ \E c \in Conns : ConnLost(c)
    \/ \E c \in Conns : Disconnect(c)
    \/ \E c \in Conns, f \in GoodLogins : Login(c, f)
    \/ \E c \in Conns : Logout(c)
    \/ \E c \in Conns, f \in SendFrames(V1) : Send(c, f)
    \/ dispatcher_run
    \/ drain_next
    \/ presence_task

SpecMsg == Init /\ [][NextMsg]_vars

\* connections, auth and voice signalling
NextVoice ==
    \/ \E c \in Conns : Accept(c)
    \/ \E c \in Conns : Close(c)
    \/ \E c \in Conns, f \in GoodLogins : Login(c, f)
    \/ \E c \in Conns, f \in Dialled : Call(c, f)
    \/ \E c \in Conns, f \in AnswerFrames(V1) : Answer(c, f)
    \/ \E c \in Conns, f \in RejectFrames(V1) : Reject(c, f)
    \/ \E c \in Conns, f \in EndFrames(V1) : End(c, f)
    \/ \E c \in Conns, f \in VoiceDataFrames(V1) : VoiceData(c, f)
    \/ dispatcher_run
    \/ presence_task

SpecVoice == Init /\ [][NextVoice]_vars

\* connections, auth and presence updates
NextPresence ==
    \/ \E c \in Conns : Accept(c)
    \/ \E c \in Conns : Close(c)
    \/ \E c \in Conns, f \in GoodLogins : Login(c, f)
    \/ \E c \in Conns : Logout(c)
    \/ \E c \in Conns, f \in UpdateFrames(V1) : Update(c, f)
    \/ dispatcher_run
    \/ presence_task

SpecPresence == Init /\ [][NextPresence]_vars

\* connections, auth and rooms
NextRoom ==
    \/ \E c \in Conns : Accept(c)
    \/ \E c \in Conns : Close(c)
    \/ \E c \in Conns, f \in GoodLogins : Login(c, f)
    \/ \E c \in Conns, f \in CreateFrames(V1) : Create(c, f)
    \/ \E c \in Conns, f \in JoinFrames(V1) : Join(c, f)
    \/ \E c \in Conns, f \in LeaveFrames(V1) : Leave(c, f)
    \/ \E c \in Conns, f \in KickFrames(V1) : Kick(c, f)
    \/ \E c \in Conns, f \in DeleteFrames(V1) : Delete(c, f)
    \/ dispatcher_run
    \/ presence_task

SpecRoom == Init /\ [][NextRoom]_vars

\* The server of Init once alice has logged in on c1 and bob on c2, and the
\* tasks their logins started have run: all of it but the file transfers.
LoggedIn ==
    /\ conn_state = [c \in Conns |-> "open"]
    /\ ctx_user = [c \in Conns |-> IF c = "c1" THEN "alice" ELSE "bob"]
    /\ ctx_token = [c \in Conns |-> IF c = "c1" THEN "t1" ELSE "t2"]
    /\ age = [c \in Conns |-> 0]
    /\ by_writer = Conns
    /\ by_user = [u \in Usernames |-> CASE u = "alice" -> "c1" [] u = "bob" -> "c2"
                                         [] OTHER -> None]
    /\ last_binder = by_user
    /\ users = [u \in Usernames |-> sha256_hex(u)]
    /\ sessions = {<<"t1", "alice">>, <<"t2", "bob">>}
    /\ presence = [u \in Usernames |-> IF u = "carol" THEN "offline" ELSE "online"]
    /\ rooms = [r \in RoomIds |-> [owner |-> "alice", encrypted |-> FALSE,
                                    password_hash |-> NoPassword]]
    /\ room_members = [r \in RoomIds |-> {"alice", "bob", "carol"}]
    /\ messages = <<>>
    /\ offline_queue = <<>>
    /\ dq = <<>>
    /\ out = [c \in Conns |-> <<>>]
    /\ active_calls = [k \in {} |-> None]
    /\ user_to_call = [u \in Usernames |-> None]
    /\ minted = 2
    /\ tasks = <<>>
    /\ friend_requests = <<>>
    /\ friends = {}
    /\ d_pc = "get"
    /\ d_user = None
    /\ d_messages = <<>>
    /\ d_i = 1
    /\ refused = FALSE
    /\ NoCodec

\* alice and bob logged in, no file offered yet
InitFile ==
    /\ LoggedIn
    /\ files = [k \in {} |-> None]
    /\ file_sessions = [k \in {} |-> None]
    /\ file_states = <<>>
    /\ peers = [h \in {} |-> NewPeer]

\* alice and bob logged in, once alice has offered bob a file and bob has
\* accepted it
InitBridge ==
    /\ LoggedIn
    /\ files = [k \in {"s1"} |-> [sender_id |-> "alice", target_id |-> "bob",
                                   status |-> "accepted"]]
    /\ file_sessions = [k \in {"s1"} |-> 1]
    /\ file_states = <<[session_id |-> "s1", sender_id |-> "alice", receiver_id |-> "bob",
                         sender |-> None, receiver |-> None, bridge_task |-> NoTask]>>
    /\ peers = [h \in {} |-> NewPeer]

\* the file service: offers, answers and reports of alice and bob
NextFile ==
    \/ \E c \in Conns, f \in FileRequestFrames(V1) : FileRequest(c, f)
    \/ \E c \in Conns, f \in FileAcceptFrames(V1) : FileAccept(c, f)
    \/ \E c \in Conns, f \in FileRejectFrames(V1) : FileReject(c, f)
    \/ \E c \in Conns, f \in FileCompleteFrames(V1) : FileComplete(c, f)
    \/ \E c \in Conns, f \in FileErrorFrames(V1) : FileError(c, f)

SpecFile == InitFile /\ [][NextFile]_vars

\* the file channel of an accepted session, and file/accept again
NextBridge ==
    \/ \E c \in Conns, f \in FileAcceptFrames(V1) : FileAccept(c, f)
    \/ \E h \in Range(Peers) : Connect(h)
    \/ \E h \in Range(Peers), line \in HandshakeLines : Handshake(h, line)
    \/ \E h \in Range(Peers), b \in Bytes : Write(h, b)
    \/ \E h \in Range(Peers) : Eof(h)
    \/ \E h \in Range(Peers) : Reset(h)
    \/ \E i \in 1..MaxStates : BridgeStart(i)
    \/ \E i \in 1..MaxStates, n \in 1..ChunkSize : BridgeCopy(i, n)

SpecBridge == InitBridge /\ [][NextBridge]_vars

\* the strings the envelopes of the universe are made of
Strings ==
    {<<>>, <<"alice">>, <<"a", Quote>>, <<Backslash, "n">>, <<"a", Newline>>, <<"é">>}

\* payloads: empty, one string, a string and a number, a nested object
Payloads ==
    {Obj(<<>>)}
    \cup {Obj(<< <<(<<"u">>), Str(s)>> >>) : s \in Strings}
    \cup {Obj(<< <<(<<"u">>), Str(s)>>, <<(<<"n">>), Num(n)>> >>) :
              s \in Strings, n \in {0, 305}}
    \cup {Obj(<< <<(<<"to", Quote>>), Obj(<< <<(<<"id">>), Str(s)>> >>)>> >>) : s \in Strings}

\* envelopes {id, type, timestamp, command, headers, payload}
Envelopes ==
    {Obj(<< <<(<<"id">>), Str(id)>>, <<(<<"type">>), Str(<<"request">>)>>,
            <<(<<"timestamp">>), Num(ts)>>, <<(<<"command">>), Str(<<"auth/login">>)>>,
            <<(<<"headers">>), h>>, <<(<<"payload">>), p>> >>) :
        id \in {<<"1">>, <<"é">>}, ts \in {0, 1700},
        h \in {Obj(<<>>), Obj(<< <<(<<"version">>), Str(<<DEFAULT_VERSION>>)>> >>)},
        p \in Payloads}

\* encode_msg is called on the envelope
Encode ==
    /\ tx_msg # Unset /\ tx_bytes = <<>>
    /\ tx_bytes' = encode_msg(tx_msg)
    /\ UNCHANGED <<worldVars, taskVars, refused, tx_msg, rx_msg>>

\* decode_msg is called on the frame encode_msg returned
Decode ==
    /\ tx_bytes # <<>> /\ tx_bytes # ProtocolError /\ rx_msg = Unset
    /\ rx_msg' = decode_msg(tx_bytes)
    /\ UNCHANGED <<worldVars, taskVars, refused, tx_msg, tx_bytes>>

\* an envelope of the universe, about to be encoded
InitCodec == InitServer /\ tx_msg \in Envelopes /\ tx_bytes = <<>> /\ rx_msg = Unset

\* framing: an envelope is encoded, the frame decoded
NextCodec == Encode \/ Decode

SpecCodec == InitCodec /\ [][NextCodec]_vars

\* connections, auth and friendships
NextFriend ==
    \/ \E c \in Conns : Accept(c)
    \/ \E c \in Conns : Close(c)
    \/ \E c \in Conns, f \in GoodLogins : Login(c, f)
    \/ \E c \in Conns, f \in FriendRequestFrames(V1) : FriendRequest(c, f)
    \/ \E c \in Conns, f \in FriendAcceptFrames(V1) : FriendAccept(c, f)
    \/ \E c \in Conns, f \in FriendRejectFrames(V1) : FriendReject(c, f)
    \/ \E c \in Conns, f \in FriendDeleteFrames(V1) : FriendDelete(c, f)
    \/ dispatcher_run
    \/ presence_task

SpecFriend == Init /\ [][NextFriend]_vars

\* ---------------------------------------------------------- properties
\* where the wire [message_id, to u] is, as <<connection, position>> pairs
WrittenAt(w, id, u) ==
    UNION {{<<c, i>> : i \in {j \in 1..Len(w.out[c]) :
                                  w.out[c][j] = [message_id |-> id, to |-> u]}} : c \in Conns}

\* the events queued for u, oldest first
QueueOf(w, u) ==
    LET rows == SelectSeq(w.offline_queue, LAMBDA r : r.user_id = u)
    IN [k \in 1..Len(rows) |-> rows[k].message]

\* the positions of message id in u's offline queue
QueuedAt(w, id, u) ==
    {i \in 1..Len(QueueOf(w, u)) : QueueOf(w, u)[i].message_id = id}

\* the users a message/send of connection c is for
Recipients(w, c, f) ==
    IF f.payload.target.type = "user" THEN {f.payload.target.id} \ {""}
    ELSE IF f.payload.target.type = "room"
    THEN w.room_members[f.payload.target.id] \ {w.ctx_user[c]}
    ELSE {}

\* the connections u is logged in on whose transport is up
LiveConns(w, u) == {c \in Conns : w.conn_state[c] = "open" /\ w.ctx_user[c] = u}

\* C1: whenever a connection's message/send is answered with status 200, each
\* recipient (the target user, or every room member but the sender) has the
\* event exactly once: on a live connection of the recipient or in the
\* recipient's offline queue, and nowhere else.
C1_DeliveredExactlyOnce ==
    \A c \in Conns, f \in SendFrames(V1) :
        conn_state[c] = "open" =>
            LET r == handle_client(World, c, f)
                id == Len(messages) + 1
            IN r.resp[1].status = SUCCESS =>
                   \A u \in Recipients(World, c, f) :
                       /\ \A p \in WrittenAt(r.w, id, u) : p[1] \in LiveConns(r.w, u)
                       /\ Cardinality(WrittenAt(r.w, id, u)) + Cardinality(QueuedAt(r.w, id, u)) = 1

\* C2: on every connection, the events of one sender for one recipient appear in
\* the order the sender sent them (message ids are handed out in send order).
C2_SenderOrderKept ==
    \A c \in Conns : \A i, j \in 1..Len(out[c]) :
        (/\ i < j
         /\ out[c][i].to = out[c][j].to
         /\ messages[out[c][i].message_id].sender_id = messages[out[c][j].message_id].sender_id)
        => out[c][i].message_id < out[c][j].message_id

\* the drain the dispatcher task is in or about to begin: its user, the events
\* it consumed and the index of the event it sends next
DrainUser == IF d_pc = "loop" THEN d_user ELSE Head(dq)
DrainBatch == IF d_pc = "loop" THEN d_messages ELSE QueueOf(World, Head(dq))
DrainAt == IF d_pc = "loop" THEN d_i ELSE 1
\* a step of the dispatcher task that ends a drain
DrainEnds == (dispatcher_run \/ drain_next) /\ d_pc' = "get"

\* what connection c got of the events msgs for u, in the order it got them
Received(o, c, msgs, u) ==
    LET OfBatch(x) == \E i \in 1..Len(msgs) : x = Wire(msgs[i], u)
    IN SelectSeq(o[c], OfBatch)

\* s is t without some of its elements
RECURSIVE IsSubSeq(_, _)
IsSubSeq(s, t) ==
    IF s = <<>> THEN TRUE
    ELSE IF t = <<>> THEN FALSE
    ELSE IF Head(s) = Head(t) THEN IsSubSeq(Tail(s), Tail(t))
    ELSE IsSubSeq(s, Tail(t))

\* C3: when the drain a login started is over, every event that was in the
\* user's offline queue has reached the user exactly once (or waits in the queue
\* for the next login), and each connection got its events in insert order; a
\* drain that finds the queue empty writes nothing.
C3_DrainDeliversAllInOrder ==
    [][DrainEnds =>
          LET u == DrainUser
              msgs == DrainBatch
          IN /\ \A i \in 1..Len(msgs) :
                    Cardinality(WrittenAt(World', msgs[i].message_id, u))
                    + Cardinality(QueuedAt(World', msgs[i].message_id, u)) = 1
             /\ \A c \in Conns :
                    IsSubSeq(Received(out', c, msgs, u),
                             [i \in 1..Len(msgs) |-> Wire(msgs[i], u)])
             /\ msgs = <<>> => out' = out]_vars

\* C4: when a send fails during a drain, the events consumed but not delivered
\* (the one whose send failed and those after it) are back at the end of the
\* user's offline queue in their original order.
C4_FailedDrainRequeuesRest ==
    [][(DrainEnds /\ DrainBatch # <<>> /\ ~CanSend(World, DrainUser)) =>
          LET rest == SubSeq(DrainBatch, DrainAt, Len(DrainBatch))
              q == QueueOf(World', DrainUser)
          IN Len(q) >= Len(rest) /\ SubSeq(q, Len(q) - Len(rest) + 1, Len(q)) = rest]_vars

\* the calls that are not ended and have u among their participants
CallsOf(u) ==
    {k \in DOMAIN active_calls :
        u \in active_calls[k].participants /\ active_calls[k].status # "ended"}

\* C5: user_to_call maps u to call k exactly when u is a participant of the
\* active, not ended call k; so no entry of user_to_call mentions a call that
\* active_calls no longer holds.
C5_CallMapsAgree ==
    \A u \in Usernames, k \in FrameIds : (user_to_call[u] = k) <=> (k \in CallsOf(u))

\* C6: no user is a participant of two calls that are not ended.
C6_OneCallPerUser == \A u \in Usernames : Cardinality(CallsOf(u)) <= 1

\* C7: a connection whose loop is running has its record in the registry's
\* by-transport index.
C7_ServedIsRegistered ==
    \A c \in Conns : conn_state[c] \in {"open", "lost"} => c \in by_writer

\* C8: a connection context is the by-user entry of at most one user.
C8_BoundUnderOneUser ==
    \A c \in Conns : Cardinality({u \in Usernames : by_user[u] = c}) <= 1

\* C9: a user's by-user entry, when present, is the context that bound the user
\* last; and a logout, a close, an unregister or an idle eviction of any other
\* context leaves the entry as it is.
C9_LastLoginWins ==
    \A u \in Usernames :
        /\ by_user[u] # None => by_user[u] = last_binder[u]
        /\ \A c \in Conns \ {by_user[u]} :
               /\ handle_client(World, c, LogoutFrame(V1)).w.by_user[u] = by_user[u]
               /\ finally(World, c).by_user[u] = by_user[u]
               /\ unregister(World, c).by_user[u] = by_user[u]
               /\ cleanup_idle(World, {c}).by_user[u] = by_user[u]

\* a newer context holds u's entry while an older context of u has logged in
\* and has been closed
C9_Witness ==
    \E u \in Usernames, c \in Conns :
        /\ by_user[u] \notin {None, c}
        /\ ctx_user[c] = u
        /\ conn_state[c] = "closed"

\* C10: a frame whose headers carry no version or another one than "1.0" is
\* answered with exactly one response, status UPGRADE_REQUIRED and code
\* VERSION_MISMATCH, and leaves the whole state, last_seen included, as it was.
C10_VersionGate ==
    \A c \in Conns, f \in BadVersionFrames :
        conn_state[c] = "open" =>
            LET r == handle_client(World, c, f)
            IN /\ r.w = World
               /\ Len(r.resp) = 1
               /\ r.resp[1].status = UPGRADE_REQUIRED
               /\ r.resp[1].error_code = {VERSION_MISMATCH}

\* the gate has refused a frame while a logged-in connection had gone a tick
\* without a frame
C10_Witness ==
    /\ refused
    /\ \E c \in Conns : conn_state[c] = "open" /\ ctx_user[c] # None /\ age[c] > 0

\* C11: when the handler of a frame raises an exception that is no protocol
\* error, the connection gets exactly one response, with status INTERNAL_ERROR,
\* and its loop goes on: the connection stays open and registered.
C11_HandlerErrorAnswered500 ==
    \A c \in Conns, f \in Requests(V1) :
        (conn_state[c] = "open" /\ dispatch(touch(World, c), c, f).raised # None) =>
            LET r == handle_client(World, c, f)
            IN /\ Len(r.resp) = 1
               /\ r.resp[1].status = INTERNAL_ERROR
               /\ r.w.conn_state[c] = "open"
               /\ c \in r.w.by_writer

\* C12: when a friend/accept naming request r is answered with status 200, the
\* connection's user is r's addressee, are_friends holds for requester and
\* addressee in both argument orders, the friends table has exactly one row for
\* the pair, with user1 < user2, and r's status is accepted.
C12_AcceptMakesFriends ==
    \A c \in Conns, f \in FriendAcceptFrames(V1) :
        conn_state[c] = "open" =>
            LET r == handle_client(World, c, f)
                id == f.payload.request_id
                a == friend_requests[id].from_user
                b == friend_requests[id].to_user
            IN r.resp[1].status = SUCCESS =>
                   /\ id \in 1..Len(friend_requests)
                   /\ b = ctx_user[c]
                   /\ are_friends(r.w, a, b) /\ are_friends(r.w, b, a)
                   /\ Cardinality({p \in r.w.friends : {p[1], p[2]} = {a, b}}) = 1
                   /\ \A p \in r.w.friends : Before(p[1], p[2])
                   /\ r.w.friend_requests[id].status = "accepted"

\* a request whose requester comes after its addressee in the order of user
\* names has been accepted, and one in the other direction is still pending
C12_Witness ==
    \E i, j \in 1..Len(friend_requests) :
        /\ friend_requests[i].status = "accepted"
        /\ Before(friend_requests[i].to_user, friend_requests[i].from_user)
        /\ friends_row(friend_requests[i].from_user, friend_requests[i].to_user) \in friends
        /\ friend_requests[j].status = "pending"
        /\ friend_requests[j].from_user = friend_requests[i].to_user
        /\ friend_requests[j].to_user = friend_requests[i].from_user

\* C13: a friend/accept by the addressee of a request that is already accepted
\* is answered with status 200 and leaves the friends table and the request
\* table as they are.
C13_SecondAcceptSucceeds ==
    \A c \in Conns, f \in FriendAcceptFrames(V1) :
        LET id == f.payload.request_id
        IN (/\ conn_state[c] = "open"
            /\ id \in 1..Len(friend_requests)
            /\ friend_requests[id].status = "accepted"
            /\ friend_requests[id].to_user = ctx_user[c])
           => LET r == handle_client(World, c, f)
              IN /\ r.resp[1].status = SUCCESS
                 /\ r.w.friends = friends
                 /\ r.w.friend_requests = friend_requests

\* the calls that have u among their participants
InCalls(u) == {k \in DOMAIN active_calls : u \in active_calls[k].participants}

\* among the events written, a voice/event of the given type for call k went to
\* user p on a connection p is logged in on
Got(events, w, p, event_type, k) ==
    \E i \in 1..Len(events) :
        /\ events[i].to = p
        /\ events[i].conn \in LiveConns(w, p)
        /\ events[i].event.command = "voice/event"
        /\ events[i].event.event_type = event_type
        /\ events[i].event.call_id = k

\* user p, when bound to a transport that is up, got the event
Notified(events, w, p, event_type, k) == CanSend(w, p) => Got(events, w, p, event_type, k)

\* C14: when a connection closes whose user is in a call, the user is afterwards
\* in no call's participant set and has no user_to_call entry, and of each call
\* the user was in, the remaining participants got member_left when the call
\* goes on and ended when it does not.
C14_CloseLeavesCall ==
    [][\A c \in Conns :
          (Close(c) /\ ctx_user[c] # None /\ InCalls(ctx_user[c]) # {}) =>
              LET u == ctx_user[c]
                  lost == [World EXCEPT !.conn_state[c] = "lost"]
                  events == finally_sent(lost, c)
              IN /\ \A k \in DOMAIN active_calls' : u \notin active_calls'[k].participants
                 /\ user_to_call'[u] = None
                 /\ \A k \in InCalls(u) :
                        IF k \in DOMAIN active_calls'
                        THEN \A p \in active_calls'[k].participants :
                                 Notified(events, lost, p, "member_left", k)
                        ELSE \A p \in active_calls[k].participants \ {u} :
                                 Notified(events, lost, p, "ended", k)]_vars

\* this step is a voice/call that puts a new call object under id k
Placed(k) ==
    \E c \in Conns, f \in Dialled :
        /\ f.id = k
        /\ handle_client(World, c, f).resp[1].status = SUCCESS
        /\ Call(c, f)

\* this step is a voice/answer for call k
Answered(k) == \E c \in Conns, f \in AnswerFrames(V1) : f.payload.call_id = k /\ Answer(c, f)

\* this step is a voice/reject for the direct call k
RejectedDirect(k) ==
    /\ active_calls[k].call_type = "direct"
    /\ \E c \in Conns, f \in RejectFrames(V1) : f.payload.call_id = k /\ Reject(c, f)

\* this step is the final voice/end of call k, sent by a participant or made
\* by the server for a participant whose connection closes: the end of a
\* direct call, or that of the last participant of a group call
FinalEnd(k) ==
    LET Final(u) == /\ u \in active_calls[k].participants
                    /\ \/ active_calls[k].call_type # "group"
                       \/ active_calls[k].participants = {u}
    IN \/ \E c \in Conns, f \in EndFrames(V1) :
              f.payload.call_id = k /\ End(c, f) /\ Final(ctx_user[c])
       \/ \E c \in Conns :
              /\ ctx_user[c] # None
              /\ user_to_call[ctx_user[c]] = k
              /\ Final(ctx_user[c])
              /\ Close(c)

C16_EndLeavesOrEnds ==
    \A c \in Conns, f \in EndFrames(V1) :
        LET r == handle_client(World, c, f)
            u == ctx_user[c]
            k == f.payload.call_id
        IN (conn_state[c] = "open" /\ r.resp # <<>> /\ r.resp[1].status = SUCCESS) =>
               LET call == active_calls[k]
                   rest == call.participants \ {u}
               IN IF call.call_type = "group" /\ rest # {}
                  THEN /\ k \in DOMAIN r.w.active_calls
                       /\ r.w.active_calls[k].participants = rest
                       /\ r.w.active_calls[k].status # "ended"
                       /\ \A p \in rest : Notified(r.sent, World, p, "member_left", k)
                  ELSE /\ \A p \in call.participants : Notified(r.sent, World, p, "ended", k)
                       /\ k \notin DOMAIN r.w.active_calls
                       /\ \A p \in Usernames : r.w.user_to_call[p] # k

\* C17: a voice/data frame gets no response. From a participant of the call it
\* names, its payload is written unchanged to every other participant, on a
\* connection that participant is logged in on, and nothing is written to the
\* sender or on the sender's connection; from anyone else, or for a call that
\* is not active, nothing is written at all.
C17_VoiceDataForwarded ==
    \A c \in Conns, f \in VoiceDataFrames(V1) :
        conn_state[c] = "open" =>
            LET r == handle_client(World, c, f)
                u == ctx_user[c]
                k == f.payload.call_id
            IN /\ r.resp = <<>>
               /\ IF u # None /\ k \in DOMAIN active_calls /\ u \in active_calls[k].participants
                  THEN /\ \A p \in active_calls[k].participants \ {u} :
                              CanSend(World, p) =>
                                  \E i \in 1..Len(r.sent) :
                                      /\ r.sent[i].to = p
                                      /\ r.sent[i].conn \in LiveConns(World, p)
                       /\ \A i \in 1..Len(r.sent) :
                              /\ r.sent[i].event = [command |-> "voice/data", payload |-> f.payload]
                              /\ r.sent[i].to \in active_calls[k].participants \ {u}
                              /\ r.sent[i].conn # c
                  ELSE r.sent = <<>>

\* the send_to_user tasks a handler started
Started(w, r) == SubSeq(r.w.tasks, Len(w.tasks) + 1, Len(r.w.tasks))

\* C18: when an auth/login is answered with 200, the token in the response was
\* in no session before and is now stored for the user and kept by the
\* connection, the user's by-user entry is the connection, the user's presence
\* is online, the user was put on the offline dispatcher's queue, and an online
\* presence/event was started for every other user bound then, which lands on
\* a connection that user is logged in on; none is addressed to the user and
\* none lands on the user's own connection.
C18_LoginBindsAndAnnounces ==
    \A c \in Conns, f \in LoginFrames(V1) :
        LET r == handle_client(World, c, f)
            u == f.payload.username
            started == Started(World, r)
        IN (conn_state[c] = "open" /\ Bounded(r.w) /\ r.resp[1].status = SUCCESS) =>
               LET token == r.resp[1].body.token
               IN /\ \A p \in sessions : p[1] # token
                  /\ <<token, u>> \in r.w.sessions
                  /\ r.w.ctx_token[c] = token
                  /\ r.w.by_user[u] = c
                  /\ r.w.ctx_user[c] = u
                  /\ r.w.presence[u] = "online"
                  /\ r.w.dq = Append(dq, u)
                  /\ \A p \in Usernames \ {u} :
                         by_user[p] # None =>
                             \E i \in 1..Len(started) :
                                 /\ started[i] = [to |-> p, event |-> presence_event(u, "online")]
                                 /\ CanSend(r.w, p) =>
                                        run_task(r.w, started[i])[1].conn \in LiveConns(r.w, p)
                  /\ \A i \in 1..Len(started) :
                         /\ started[i].to # u
                         /\ \A j \in 1..Len(run_task(r.w, started[i])) :
                                run_task(r.w, started[i])[j].conn # c

\* C19: the token of each open, authenticated connection is in the session
\* store under the connection's user; and when an auth/login or auth/refresh
\* on a connection that holds a token is answered with 200, the new token is
\* stored and the token the connection held before is no longer in the store.
C19_OneTokenPerConnection ==
    /\ \A c \in Conns :
           (conn_state[c] = "open" /\ ctx_user[c] # None) =>
               <<ctx_token[c], ctx_user[c]>> \in sessions
    /\ \A c \in Conns, f \in LoginFrames(V1) \cup {RefreshFrame(V1)} :
           LET r == handle_client(World, c, f)
           IN (/\ conn_state[c] = "open"
               /\ ctx_token[c] # None
               /\ Bounded(r.w)
               /\ r.resp[1].status = SUCCESS) =>
                  /\ r.w.ctx_token[c] # ctx_token[c]
                  /\ <<r.w.ctx_token[c], r.w.ctx_user[c]>> \in r.w.sessions
                  /\ \A p \in r.w.sessions : p[1] # ctx_token[c]

\* C20: when an auth/logout on a connection that is logged in is answered, the
\* token the connection held is not in the session store, the connection holds
\* no user and no token and is no user's by-user entry, the user's presence is
\* offline, and an offline presence/event was started for every other user
\* that is bound, which lands on a connection that user is logged in on.
C20_LogoutUnbindsAndAnnounces ==
    \A c \in Conns :
        LET r == handle_client(World, c, LogoutFrame(V1))
            u == ctx_user[c]
            started == Started(World, r)
        IN (conn_state[c] = "open" /\ u # None /\ Bounded(r.w)) =>
               /\ r.resp[1].status = SUCCESS
               /\ \A p \in r.w.sessions : p[1] # ctx_token[c]
               /\ r.w.ctx_user[c] = None
               /\ r.w.ctx_token[c] = None
               /\ \A p \in Usernames : r.w.by_user[p] # c
               /\ r.w.presence[u] = "offline"
               /\ \A p \in Usernames \ {u} :
                      CanSend(r.w, p) =>
                          \E i \in 1..Len(started) :
                              /\ started[i] = [to |-> p, event |-> presence_event(u, "offline")]
                              /\ run_task(r.w, started[i])[1].conn \in LiveConns(r.w, p)

\* the connections a scan of the presence cleaner evicts in this state
Evicted == by_writer \ presence_scan(World).by_writer

\* C21: a scan of the presence cleaner evicts a connection only when its
\* last_seen is older than the timeout; an evicted connection is in neither
\* index of the registry, its user's presence is offline and an offline
\* presence/event was started for every other user still bound, which lands
\* on a connection that user is logged in on; and a connection that has just
\* passed a valid frame to the router (a heartbeat, say) is not evicted by a
\* scan until more than the timeout has passed.
C21_EvictsOnlyIdle ==
    LET w2 == presence_scan(World)
        started == SubSeq(w2.tasks, Len(tasks) + 1, Len(w2.tasks))
    IN /\ \A c \in Evicted :
              /\ age[c] > TimeoutTicks
              /\ \A p \in Usernames : w2.by_user[p] # c
              /\ ctx_user[c] # None =>
                     /\ w2.presence[ctx_user[c]] = "offline"
                     /\ \A p \in Usernames \ {ctx_user[c]} :
                            CanSend(w2, p) =>
                                \E i \in 1..Len(started) :
                                    /\ started[i] = [to |-> p,
                                                     event |-> presence_event(ctx_user[c], "offline")]
                                    /\ run_task(w2, started[i])[1].conn \in LiveConns(w2, p)
       /\ \A c \in Conns, f \in Requests(V1) :
              LET r == handle_client(World, c, f)
              IN (conn_state[c] = "open" /\ r.raised = None) =>
                     /\ r.w.age[c] = 0
                     /\ c \notin r.w.by_writer \ presence_scan(r.w).by_writer

\* a scan evicts a connection that is logged in
C21_Witness == \E c \in Evicted : ctx_user[c] # None

\* C22: when a presence/update is answered with 200, a presence/event with the
\* user and the new state was written to, or started for, every other user
\* that is bound, on a connection that user is logged in on.
C22_UpdateAnnounced ==
    \A c \in Conns, f \in UpdateFrames(V1) :
        LET r == handle_client(World, c, f)
            u == ctx_user[c]
            events == r.sent \o Started(World, r)
            Lands(e) == IF "conn" \in DOMAIN e THEN <<e>> ELSE run_task(r.w, e)
        IN (conn_state[c] = "open" /\ r.resp[1].status = SUCCESS) =>
               \A p \in Usernames \ {u} :
                   CanSend(r.w, p) =>
                       \E i \in 1..Len(events) :
                           /\ events[i].to = p
                           /\ events[i].event = presence_event(u, f.payload.state)
                           /\ Lands(events[i])[1].conn \in LiveConns(r.w, p)

\* C23: the owner of every room there is is a member of it.
C23_OwnerIsMember == \A r \in DOMAIN rooms : rooms[r].owner \in room_members[r]

\* C24: a room/join by a user who is a member of the room already, with the
\* right password when the room is encrypted, is answered with 200 and leaves
\* the room's members as they were.
C24_JoinIdempotent ==
    \A c \in Conns, f \in JoinFrames(V1) :
        LET r == handle_client(World, c, f)
            room_id == f.payload.room_id
        IN (/\ conn_state[c] = "open"
            /\ room_id \in DOMAIN rooms
            /\ ctx_user[c] \in room_members[room_id]
            /\ rooms[room_id].encrypted =>
                   rooms[room_id].password_hash = sha256_hex(f.payload.password)) =>
               /\ Len(r.resp) = 1
               /\ r.resp[1].status = SUCCESS
               /\ r.w.room_members = room_members


\* ------------------------------------------------------------------ C27
\* C27: file/accept on an existing session succeeds only for the session's
\* target user, and then the session's status is "accepted" and the bridge
\* table holds a slot under the session id for that session; from any other
\* user it is answered FORBIDDEN and leaves the files table and the bridge
\* table as they were.
C27_AcceptOnlyByTarget ==
    \A c \in Conns, f \in FileAcceptFrames(V1) :
        conn_state[c] = "open" /\ f.payload.session_id \in DOMAIN files =>
            LET s == f.payload.session_id
                r == handle_client(World, c, f)
            IN /\ r.raised = None /\ Len(r.resp) = 1
               /\ IF ctx_user[c] = files[s].target_id
                  THEN /\ r.resp[1].status = SUCCESS
                       /\ r.w.files[s].status = "accepted"
                       /\ r.w.files = [files EXCEPT ![s].status = "accepted"]
                       /\ s \in DOMAIN r.w.file_sessions
                       /\ r.w.file_sessions[s] \notin DOMAIN file_states
                       /\ r.w.file_states[r.w.file_sessions[s]].session_id = s
                       /\ \A k \in DOMAIN file_sessions \ {s} :
                              r.w.file_sessions[k] = file_sessions[k]
                  ELSE /\ r.resp[1].status = FORBIDDEN
                       /\ r.w.files = files
                       /\ r.w.file_sessions = file_sessions
                       /\ r.w.file_states = file_states

\* bob has accepted the file alice offered him: the session is accepted and has
\* its slot, and alice, who is not its target, is connected
C27_Witness ==
    \E s \in DOMAIN files :
        /\ files[s].sender_id = "alice" /\ files[s].target_id = "bob"
        /\ files[s].status = "accepted"
        /\ s \in DOMAIN file_sessions
        /\ file_states[file_sessions[s]].session_id = s
        /\ \E c \in Conns : conn_state[c] = "open" /\ ctx_user[c] = "alice"


\* ------------------------------------------------------------------ C30
\* the bridging tasks created for session s
Bridges(s) ==
    {i \in DOMAIN file_states :
        file_states[i].session_id = s /\ file_states[i].bridge_task # NoTask}

\* a bridge copies only between a sender half of the session's sender_id and a
\* receiver half of its target_id, both attached by their handshakes
C30_BridgeHasBothHalves ==
    \A i \in DOMAIN file_states :
        LET b == file_states[i].bridge_task
            session == files[file_states[i].session_id]
        IN b.pc = "copy" =>
               /\ b.sender # None /\ b.receiver # None
               /\ peers[b.sender].state = "attached" /\ peers[b.sender].role = "sender"
               /\ peers[b.sender].user_id = session.sender_id
               /\ peers[b.receiver].state = "attached" /\ peers[b.receiver].role = "receiver"
               /\ peers[b.receiver].user_id = session.target_id

\* a handshake that names an unknown session, a bad role or a user_id that is
\* not the one of its role is closed, and no slot is touched
C30_BadHandshakeClosed ==
    \A h \in Range(Peers), line \in HandshakeLines :
        LET w == channel_handle_client(World, h, line)
            known == line.session_id \in DOMAIN file_sessions
            slot == file_states[file_sessions[line.session_id]]
        IN h \in DOMAIN peers /\ peers[h].state = "open"
           /\ (\/ ~known
               \/ line.role \notin {"sender", "receiver"}
               \/ line.role = "sender" /\ line.user_id # slot.sender_id
               \/ line.role = "receiver" /\ line.user_id # slot.receiver_id)
           => w.peers[h].state = "closed" /\ w.file_states = file_states

\* C30: a bridge copies for a session only once a sender half whose user_id
\* is the session's sender_id and a receiver half whose user_id is its
\* target_id have completed the handshake; a handshake with an unknown
\* session, a bad role or a mismatched user_id is closed without being
\* attached; and no session ever has more than one bridging task.
C30_OneBridgePerSession ==
    /\ C30_BridgeHasBothHalves
    /\ C30_BadHandshakeClosed
    /\ \A s \in DOMAIN files : Cardinality(Bridges(s)) <= 1


\* ------------------------------------------------------------------ C26
\* the passes of a bridge's loop that can happen now: task i, n bytes read
Passes ==
    {p \in (DOMAIN file_states) \X (1..ChunkSize) :
        /\ file_states[p[1]].bridge_task.pc = "copy"
        /\ LET s == peers[file_states[p[1]].bridge_task.sender]
           IN \/ p[2] = 1 /\ (s.reset \/ (s.eof /\ s.rd = Len(s.sent)))
              \/ ~s.reset /\ s.rd + p[2] <= Len(s.sent)}

\* the events of r push `command` for session s to user p
Pushed(r, command, s, p) ==
    \E k \in 1..Len(r.sent) :
        /\ r.sent[k].to = p
        /\ r.sent[k].event.command = command /\ r.sent[k].event.session_id = s

\* a bridging run that ends after the sender's end of stream leaves the status
\* "completed" and pushes file/complete to sender and target
C26_CleanEndReported ==
    \A p \in Passes :
        LET r == bridge_copy(World, p[1], p[2])
            s == file_states[p[1]].session_id
        IN r.w.file_states[p[1]].bridge_task.ended = "eof" =>
               /\ r.w.files[s].status = "completed"
               /\ Pushed(r, "file/complete", s, files[s].sender_id)
               /\ Pushed(r, "file/complete", s, files[s].target_id)
               /\ s \notin DOMAIN r.w.file_sessions

\* C26: every bridging run reports how it ended: after a clean end of the
\* sender's stream the status is "completed" and file/complete is pushed to
\* sender and target, after an I/O error the status is "error" and file/error
\* is pushed to both, and either way the session has left the bridge table.
C26_BridgeReportsEnd ==
    /\ C26_CleanEndReported
    /\ \A p \in Passes :
           LET r == bridge_copy(World, p[1], p[2])
               s == file_states[p[1]].session_id
           IN r.w.file_states[p[1]].bridge_task.ended = "error" =>
                  /\ r.w.files[s].status = "error"
                  /\ Pushed(r, "file/error", s, files[s].sender_id)
                  /\ Pushed(r, "file/error", s, files[s].target_id)
                  /\ s \notin DOMAIN r.w.file_sessions


\* ------------------------------------------------------------------ C25
\* C25: while a bridge copies, the bytes it has written to its receiver half
\* are the bytes its sender half wrote after the handshake line, as far as the
\* bridge has read them, in the same order; and when the bridge ends on the
\* sender's end of stream it has read, and so written, all of them.
C25_BytesCopiedExactly ==
    /\ \A i \in DOMAIN file_states :
           LET b == file_states[i].bridge_task
           IN b.pc = "copy" =>
                  peers[b.receiver].got
                      = SubSeq(peers[b.sender].sent, 1, peers[b.sender].rd)
    /\ \A p \in Passes :
           LET b == file_states[p[1]].bridge_task
           IN bridge_copy(World, p[1], p[2]).w.file_states[p[1]].bridge_task.ended = "eof"
              => peers[b.receiver].got = peers[b.sender].sent

\* a bridge has copied two different bytes and its sender has closed: the next
\* read returns the end of the stream
C25_Witness ==
    \E i \in DOMAIN file_states :
        LET b == file_states[i].bridge_task
        IN /\ b.pc = "copy"
           /\ peers[b.sender].eof
           /\ peers[b.sender].sent = <<0, 1>>
           /\ peers[b.receiver].got = <<0, 1>>


\* ------------------------------------------------------------------ C28
\* C28: consume_offline_messages(U) returns the events queued for U, oldest
\* first, and removes these rows and no other: a consume for U right after it
\* returns nothing, and the queue of every other user is as it was.
C28_ConsumeTakesUsersQueue ==
    \A u \in Usernames :
        LET r == consume_offline_messages(World, u)
        IN /\ r.messages = QueueOf(World, u)
           /\ consume_offline_messages(r.w, u).messages = <<>>
           /\ Len(r.w.offline_queue) = Len(offline_queue) - Len(r.messages)
           /\ \A v \in Usernames \ {u} : QueueOf(r.w, v) = QueueOf(World, v)
           /\ r.w = [World EXCEPT !.offline_queue = r.w.offline_queue]

\* the dispatcher has consumed the two events that waited for a user and is
\* in its first send: nothing waits for that user, and the event of another
\* user is still in the table
C28_Witness ==
    /\ d_pc = "loop"
    /\ Len(d_messages) = 2 /\ d_messages[1].message_id < d_messages[2].message_id
    /\ QueueOf(World, d_user) = <<>>
    /\ \E i \in 1..Len(offline_queue) : offline_queue[i].user_id # d_user

\* ------------------------------------------------------------------ C29
\* C29: decode_msg(encode_msg(m)) = m for every envelope m whose encoding is
\* within the frame limit.
C29_RoundTrip ==
    /\ tx_bytes \notin {<<>>, ProtocolError} => decode_msg(tx_bytes) = tx_msg
    /\ rx_msg # Unset => rx_msg = tx_msg

\* an envelope with a quote in a key and a string that ends in a newline has
\* gone through encode_msg and decode_msg
C29_Witness ==
    /\ rx_msg # Unset
    /\ rx_msg[2][6][2] = Obj(<< <<(<<"to", Quote>>), Obj(<< <<(<<"id">>), Str(<<"a", Newline>>)>> >>)>> >>)


\* ------------------------------------------------------------------ C31
\* a message/send of connection c is answered with an error status
SendRefused(c, f) ==
    /\ conn_state[c] = "open"
    /\ Len(handle_client(World, c, f).resp) = 1
    /\ handle_client(World, c, f).resp[1].status # SUCCESS

\* the part of C31 about events: a message/send answered with an error writes
\* no event to any connection and puts none in an offline queue.
C31_FailedSendDeliversNothing ==
    \A c \in Conns, f \in SendFrames(V1) :
        SendRefused(c, f) =>
            /\ handle_client(World, c, f).w.out = out
            /\ handle_client(World, c, f).w.offline_queue = offline_queue

\* C31: a message/send answered with an error (sender not logged in, no
\* conversation_id, unknown room, sender no member of the room) adds no row to
\* the message store, and writes or queues no event.
C31_FailedSendStoresNothing ==
    \A c \in Conns, f \in SendFrames(V1) :
        SendRefused(c, f) =>
            /\ handle_client(World, c, f).w.messages = messages
            /\ handle_client(World, c, f).w.out = out
            /\ handle_client(World, c, f).w.offline_queue = offline_queue


\* ------------------------------------------------------------------ C32
\* C32: a user bound in the registry's by-user index (no presence/update is
\* sent in this specification) has the stored presence state online, whatever
\* older connections of the user have logged out, been evicted or closed.
C32_BoundIsOnline ==
    \A u \in Usernames : by_user[u] # None => presence[u] = "online"

\* the part of C32 about a close: the finally block of a connection that is
\* not the binding of its user leaves the presence table as it is.
C32_DisplacedCloseKeepsPresence ==
    \A c \in Conns :
        (conn_state[c] = "open" /\ ctx_user[c] # None /\ by_user[ctx_user[c]] # c) =>
            finally(World, c).presence = presence


\* ------------------------------------------------------------------ C33
\* presence/list as a logged-in connection would be answered in state w
Listed(w) == Range(list_online_users(w))

\* C33: when the connection that is its user's binding closes without a
\* logout, the finally block leaves the user's presence state offline, and
\* presence/list no longer lists the user.
C33_CloseTurnsOffline ==
    \A c \in Conns :
        (conn_state[c] = "open" /\ ctx_user[c] # None /\ by_user[ctx_user[c]] = c) =>
            /\ finally(World, c).presence[ctx_user[c]] = "offline"
            /\ ctx_user[c] \notin Listed(finally(World, c))


\* ------------------------------------------------------------------ C34
\* the login frame of user u
LoginOf(u) == Frame("k1", "auth/login", V1, [username |-> u, password |-> sha256_hex(u)])

\* C34: user u is logged in on connection c1 and in no call; u logs in on a
\* second connection c2 and there starts or answers a call, with success. When
\* c1 then closes, its finally block leaves u in that call and the call as it is.
C34_DisplacedCloseKeepsCall ==
    \A c1 \in Conns, c2 \in Conns, u \in LoginUsers, f \in Dialled \cup AnswerFrames(V1) :
        LET w1 == handle_client(World, c2, LoginOf(u)).w
            r2 == handle_client(w1, c2, f)
            k == r2.w.user_to_call[u]
            w3 == finally(r2.w, c1)
        IN (/\ c1 # c2
            /\ conn_state[c1] = "open" /\ conn_state[c2] = "open"
            /\ ctx_user[c1] = u
            /\ user_to_call[u] = None /\ InCalls(u) = {}
            /\ Bounded(w1) /\ Bounded(r2.w)
            /\ Len(r2.resp) = 1 /\ r2.resp[1].status = SUCCESS) =>
               /\ k \in DOMAIN w3.active_calls
               /\ w3.active_calls[k] = r2.w.active_calls[k]
               /\ w3.user_to_call[u] = k


\* ------------------------------------------------------------------ C35
\* in state w, user u is in a call that is not ended, or has a user_to_call entry
InSomeCall(w, u) ==
    \/ w.user_to_call[u] # None
    \/ \E k \in DOMAIN w.active_calls :
           u \in w.active_calls[k].participants /\ w.active_calls[k].status # "ended"

\* C35: a participant of a call that is not ended is bound to a live
\* connection. So when the connection that is user u's binding sends
\* auth/logout, u is afterwards in no call and has no user_to_call entry, and
\* the same holds once that connection has closed.
C35_LogoutLeavesCalls ==
    \A c \in Conns :
        LET u == ctx_user[c]
            w1 == handle_client(World, c, LogoutFrame(V1)).w
        IN (conn_state[c] = "open" /\ u # None /\ by_user[u] = c) =>
               /\ ~CanSend(w1, u)
               /\ ~InSomeCall(w1, u)
               /\ ~InSomeCall(finally(w1, c), u)


\* ------------------------------------------------------------------ C36
\* C36: a voice/call answered with status 200 creates its call under an id no
\* call in active_calls has, and so leaves every call there is as it was.
C36_CallNeverReplaces ==
    \A c \in Conns, f \in Dialled :
        LET r == handle_client(World, c, f)
        IN (conn_state[c] = "open" /\ Len(r.resp) = 1 /\ r.resp[1].status = SUCCESS) =>
               /\ r.resp[1].body \notin DOMAIN active_calls
               /\ \A k \in DOMAIN active_calls :
                      k \in DOMAIN r.w.active_calls /\ r.w.active_calls[k] = active_calls[k]


\* ------------------------------------------------------------------ C37
\* C37: a voice/answer for a direct call is answered with status 200 only when
\* its sender is the call's target user, and the connected call then has
\* the initiator and the target as its participants.
C37_AnswerOnlyByTarget ==
    \A c \in Conns, f \in AnswerFrames(V1) :
        LET r == handle_client(World, c, f)
            k == f.payload.call_id
        IN (/\ conn_state[c] = "open"
            /\ k \in DOMAIN active_calls
            /\ active_calls[k].call_type = "direct"
            /\ Len(r.resp) = 1 /\ r.resp[1].status = SUCCESS) =>
               /\ ctx_user[c] = active_calls[k].target_id
               /\ r.w.active_calls[k].status = "connected"
               /\ r.w.active_calls[k].participants =
                      {active_calls[k].initiator_id, active_calls[k].target_id}


\* ------------------------------------------------------------------ C38
\* the voice/reject of connection c for direct call k comes from k's target
\* while k is ringing
RejectByTarget(c, k) ==
    /\ ctx_user[c] = active_calls[k].target_id
    /\ active_calls[k].status = "ringing"

\* the part of C38 about the target: its voice/reject of a ringing direct call
\* removes the call from active_calls.
C38_TargetRejectEnds ==
    \A c \in Conns, f \in RejectFrames(V1) :
        LET k == f.payload.call_id
        IN (/\ conn_state[c] = "open"
            /\ k \in DOMAIN active_calls
            /\ active_calls[k].call_type = "direct"
            /\ RejectByTarget(c, k)) =>
               k \notin DOMAIN handle_client(World, c, f).w.active_calls

\* C38: a voice/reject for a direct call that does not come from the call's
\* target, or that names a call no longer ringing, leaves active_calls and
\* user_to_call as they are.
C38_RejectOnlyByTarget ==
    \A c \in Conns, f \in RejectFrames(V1) :
        LET r == handle_client(World, c, f)
            k == f.payload.call_id
        IN (/\ conn_state[c] = "open"
            /\ k \in DOMAIN active_calls
            /\ active_calls[k].call_type = "direct"
            /\ ~RejectByTarget(c, k)) =>
               /\ r.w.active_calls = active_calls
               /\ r.w.user_to_call = user_to_call


\* ------------------------------------------------------------------ C39
\* the moves of a file session's status that go forward
FileMoves ==
    {<<"pending", "accepted">>, <<"pending", "rejected">>,
     <<"accepted", "completed">>, <<"accepted", "error">>}

\* C39: the status of a file session changes only along pending -> accepted,
\* pending -> rejected, accepted -> completed and accepted -> error; rejected,
\* unreachable, completed and error are never left.
C39_FileStatusMovesForward ==
    [][\A s \in DOMAIN files :
          files'[s].status # files[s].status =>
              <<files[s].status, files'[s].status>> \in FileMoves]_vars

\* the part of C39 about the bridge slot: a file/accept leaves the slot of a
\* session alone once a half of the session is attached to it.
C39_AcceptKeepsAttachedSlot ==
    [][\A s \in DOMAIN file_sessions :
          (/\ \/ file_states[file_sessions[s]].sender # None
              \/ file_states[file_sessions[s]].receiver # None
           /\ \E c \in Conns, f \in FileAcceptFrames(V1) : FileAccept(c, f)) =>
              (s \in DOMAIN file_sessions' /\ file_sessions'[s] = file_sessions[s])]_vars


\* ------------------------------------------------------------------ C40
\* The server started on a database that holds two messages of an earlier run,
\* sent while their recipients were offline: both to alice, or one to alice and
\* one to bob.
InitLive ==
    /\ Booted
    /\ NoCodec
    /\ messages = <<Row(1, "cv", "bob"), Row(2, "cv", "alice")>>
    /\ offline_queue \in
           {<<[user_id |-> "alice", message |-> Event(1, "bob")],
              [user_id |-> u, message |-> Event(2, "alice")]>> : u \in LoginUsers}

\* user u is logged in on connection c, c is u's binding and its peer reads
On(c, u) == conn_state[c] = "open" /\ ctx_user[c] = u /\ by_user[u] = c

\* C40: under fair scheduling of the server's tasks, an event that is in the
\* offline queue of user u while u is logged in on a connection that reads is
\* in the end written to that connection, unless u leaves the connection
\* before; neither a new login of u nor the other connections have a part in it.
C40_QueuedIsDelivered ==
    \A c \in Conns, u \in LoginUsers, id \in 1..MaxMsgs :
        (On(c, u) /\ QueuedAt(World, id, u) # {})
            ~> (~On(c, u) \/ \E p \in WrittenAt(World, id, u) : p[1] = c)

\* connections, auth and offline delivery, with peers that stop reading
NextLive ==
    \/ \E c \in Conns : Accept(c)
    \/ \E c \in Conns : ConnLost(c)
    \/ \E c \in Conns : Stall(c)
    \/ \E c \in Conns : Disconnect(c)
    \/ \E c \in Conns, f \in GoodLogins : Login(c, f)
    \/ dispatcher_run
    \/ drain_next
    \/ drain_raises
    \/ presence_task

\* the server's own tasks are scheduled fairly: the dispatcher task, the
\* send_to_user tasks and the finally block of a connection's loop; nothing is
\* assumed of what clients do
FairTasks ==
    /\ WF_vars(dispatcher_run)
    /\ WF_vars(drain_next)
    /\ WF_vars(drain_raises)
    /\ WF_vars(presence_task)
    /\ \A c \in Conns : WF_vars(Disconnect(c))

SpecLive == InitLive /\ [][NextLive]_vars /\ FairTasks

====
